---- MODULE Spec2Model ----
(***************************************************************************)
(* A model of gotgraph's VecGraph: the dense node/edge arrays with their   *)
(* intrusive adjacency chains (src/src/vec_graph.rs), the checked wrappers *)
(* of the Graph / GraphUpdate / GraphRemove traits (src/src/graph.rs,      *)
(* src/src/graph/update.rs, src/src/graph/remove.rs), the sessions with    *)
(* their handles and the batch removal they offer                          *)
(* (src/src/graph/context.rs) and the strongly connected components of     *)
(* src/src/algo/tarjan.rs.                                                 *)
(*                                                                         *)
(* Indices are 0-based as in the source; a TLA+ sequence is 1-based, so    *)
(* the record of index i is read as s[i + 1]. next[d + 1] is the source's  *)
(* next[d] (d = 0 outgoing, d = 1 incoming = IS_INCOMING as usize);        *)
(* node[k + 1] is the source's node[k] (k = 0 source, k = 1 target).       *)
(***************************************************************************)
EXTENDS Integers, Sequences, FiniteSets, TLC

VARIABLES nodes, edges, fault, last, batches, sess

vars == <<nodes, edges, fault, last, batches, sess>>

\* EdgeIx::end(): u32::MAX in the source.  TLC's integers are 32-bit signed, so
\* the sentinel is the largest of those; the store uses END only as a value that
\* is the index of no record and is below no length.
END == 2147483647

\* The store never holds more than MaxSize records, nodes and edges together;
\* MaxSingle where only the single operations run.
MaxSize == 4
MaxSingle == 5
\* A batch removal lists at most MaxDel node indices and MaxDel edge indices.
MaxDel == 2
\* A run holds at most MaxBatches batch removals.
MaxBatches == 1
\* A store that tarjan is applied to holds at most MaxTarjanNodes nodes and
\* MaxTarjanEdges edges.
MaxTarjanNodes == 3
MaxTarjanEdges == 3

\* Payload types N and E.
NodeData == {"a", "b"}
EdgeData == {"x", "y"}

NodeRepr(d, nx) == [data |-> d, next |-> nx]
EdgeRepr(d, nx, nd) == [data |-> d, next |-> nx, node |-> nd]

is_end(ix) == ix = END

\* An existence test that also accepts the first index past the end.
exists_node_index_Le(ns, ix) == ix <= Len(ns)

exists_node_index(ns, ix) == ix < Len(ns)

\* An existence test that also accepts the first index past the end.
exists_edge_index_Le(es, ix) == ix <= Len(es)

exists_edge_index(es, ix) == ix < Len(es)

\* Vec::swap_remove: the last element takes the place of element ix.
VecSwapRemove(s, ix) ==
    LET n == Len(s)
    IN  IF ix = n - 1
        THEN SubSeq(s, 1, n - 1)
        ELSE SubSeq([s EXCEPT ![ix + 1] = s[n]], 1, n - 1)

\* `let x = v;` followed by the statements F that use x: v is evaluated once.
Bind(v, F(_)) == CHOOSE y \in {F(x) : x \in {v}} : TRUE

(***************************************************************************)
(* impl_get_edges: the iterator starts at the node's chain head and yields *)
(* the current index while edges.get(current) is Some.  An iterator that   *)
(* yields more than Len(es) items has repeated an edge and never ends;     *)
(* fuel cuts it after Len(es) + 1 items and Diverges reports it.           *)
(***************************************************************************)
RECURSIVE IterNext(_, _, _, _)
IterNext(es, dir, cur, fuel) ==
    IF cur < Len(es) /\ fuel > 0
    THEN <<cur>> \o IterNext(es, dir, es[cur + 1].next[dir + 1], fuel - 1)
    ELSE <<>>

impl_get_edges(ns, es, dir, node) ==
    IterNext(es, dir, ns[node + 1].next[dir + 1], Len(es) + 1)

Diverges(ns, es, dir, node) == Len(impl_get_edges(ns, es, dir, node)) > Len(es)

outgoing_edge_indices_unchecked(ns, es, node) == impl_get_edges(ns, es, 0, node)
incoming_edge_indices_unchecked(ns, es, node) == impl_get_edges(ns, es, 1, node)

(***************************************************************************)
(* add_node / add_edge_unchecked                                           *)
(***************************************************************************)
\* An add_node that puts the new record in front of the others.
add_node_Front(ns, d) ==
    [nodes |-> <<NodeRepr(d, <<END, END>>)>> \o ns, ix |-> Len(ns)]

\* An add_node that returns the index after the one it has filled.
add_node_Off(ns, d) ==
    [nodes |-> Append(ns, NodeRepr(d, <<END, END>>)), ix |-> Len(ns) + 1]

add_node(ns, d) ==
    [nodes |-> Append(ns, NodeRepr(d, <<END, END>>)), ix |-> Len(ns)]

add_edge_unchecked(ns, es, d, n_from, n_to) ==
    IF n_from >= Len(ns) \/ n_to >= Len(ns)
    THEN [nodes |-> ns, edges |-> es, fault |-> "oob", ix |-> <<>>]
    ELSE
    LET ix == Len(es)
        nx == IF n_from = n_to
              THEN ns[n_from + 1].next
              ELSE <<ns[n_from + 1].next[1], ns[n_to + 1].next[2]>>
        ns2 == IF n_from = n_to
               THEN [ns EXCEPT ![n_from + 1].next = <<ix, ix>>]
               ELSE [ns EXCEPT ![n_from + 1].next[1] = ix,
                               ![n_to + 1].next[2] = ix]
    IN  [nodes |-> ns2, edges |-> Append(es, EdgeRepr(d, nx, <<n_from, n_to>>)),
         fault |-> "none", ix |-> <<ix>>]

\* GraphUpdate::add_edge: both endpoints are checked, then add_edge_unchecked
add_edge(ns, es, d, from, to) ==
    IF exists_node_index(ns, from) /\ exists_node_index(ns, to)
    THEN [ok |-> TRUE, r |-> add_edge_unchecked(ns, es, d, from, to)]
    ELSE [ok |-> FALSE, r |-> [nodes |-> ns, edges |-> es, fault |-> "none", ix |-> <<>>]]

(***************************************************************************)
(* The accessors.  An unchecked accessor reads its array without a bounds  *)
(* check: outside the array that is undefined behaviour, fault "oob".  A   *)
(* checked one tests the index first and fails (ok is FALSE) if it does    *)
(* not exist.                                                              *)
(***************************************************************************)
\* A read that returns the payload of the first node whatever the index.
node_unchecked_First(ns, ix) ==
    IF ix < Len(ns) THEN [fault |-> "none", ret |-> <<ns[1].data>>]
    ELSE [fault |-> "oob", ret |-> <<>>]

node_unchecked(ns, ix) ==
    IF ix < Len(ns) THEN [fault |-> "none", ret |-> <<ns[ix + 1].data>>]
    ELSE [fault |-> "oob", ret |-> <<>>]

edge_unchecked(es, ix) ==
    IF ix < Len(es) THEN [fault |-> "none", ret |-> <<es[ix + 1].data>>]
    ELSE [fault |-> "oob", ret |-> <<>>]

endpoints_unchecked(es, ix) ==
    IF ix < Len(es) THEN [fault |-> "none", ret |-> es[ix + 1].node]
    ELSE [fault |-> "oob", ret |-> <<>>]

\* node_unchecked_mut and the caller's write of d through the reference
node_unchecked_mut(ns, ix, d) ==
    IF ix < Len(ns) THEN [fault |-> "none", arr |-> [ns EXCEPT ![ix + 1].data = d]]
    ELSE [fault |-> "oob", arr |-> ns]

edge_unchecked_mut(es, ix, d) ==
    IF ix < Len(es) THEN [fault |-> "none", arr |-> [es EXCEPT ![ix + 1].data = d]]
    ELSE [fault |-> "oob", arr |-> es]

NotFound == [fault |-> "none", ret |-> <<>>]

node(ns, ix) ==
    IF exists_node_index(ns, ix) THEN [ok |-> TRUE, r |-> node_unchecked(ns, ix)]
    ELSE [ok |-> FALSE, r |-> NotFound]

edge(es, ix) ==
    IF exists_edge_index(es, ix) THEN [ok |-> TRUE, r |-> edge_unchecked(es, ix)]
    ELSE [ok |-> FALSE, r |-> NotFound]

endpoints(es, ix) ==
    IF exists_edge_index(es, ix) THEN [ok |-> TRUE, r |-> endpoints_unchecked(es, ix)]
    ELSE [ok |-> FALSE, r |-> NotFound]

node_mut(ns, ix, d) ==
    IF exists_node_index(ns, ix) THEN [ok |-> TRUE, r |-> node_unchecked_mut(ns, ix, d)]
    ELSE [ok |-> FALSE, r |-> [fault |-> "none", arr |-> ns]]

edge_mut(es, ix, d) ==
    IF exists_edge_index(es, ix) THEN [ok |-> TRUE, r |-> edge_unchecked_mut(es, ix, d)]
    ELSE [ok |-> FALSE, r |-> [fault |-> "none", arr |-> es]]

(***************************************************************************)
(* remove_edge_unchecked.  A result carries the store, a fault ("none",    *)
(* "oob" for an access outside an array through an unchecked accessor,     *)
(* which is undefined behaviour, "hang" for a loop that never ends) and    *)
(* the returned payloads.                                                  *)
(***************************************************************************)
RECURSIVE UnlinkWalk(_, _, _, _, _, _)
UnlinkWalk(es, dir, current, ix, nxt, fuel) ==
    IF is_end(current) THEN [edges |-> es, fault |-> "none"]
    ELSE IF current >= Len(es) THEN [edges |-> es, fault |-> "oob"]
    ELSE IF fuel = 0 THEN [edges |-> es, fault |-> "hang"]
    ELSE IF es[current + 1].next[dir + 1] = ix
         THEN [edges |-> [es EXCEPT ![current + 1].next[dir + 1] = nxt],
               fault |-> "none"]
         ELSE UnlinkWalk(es, dir, es[current + 1].next[dir + 1], ix, nxt, fuel - 1)

Unlink(ns, es, dir, n, ix, nxt) ==
    IF n >= Len(ns) THEN [nodes |-> ns, edges |-> es, fault |-> "oob"]
    ELSE IF ns[n + 1].next[dir + 1] = ix
         THEN [nodes |-> [ns EXCEPT ![n + 1].next[dir + 1] = nxt],
               edges |-> es, fault |-> "none"]
         ELSE LET w == UnlinkWalk(es, dir, ns[n + 1].next[dir + 1], ix, nxt, Len(es) + 1)
              IN  [nodes |-> ns, edges |-> w.edges, fault |-> w.fault]

\* Lines 594-615: every reference to the moved record's old index becomes ix.
RenameRef(r, moved, ix) == IF r = moved THEN ix ELSE r

\* A renaming that leaves every reference as it was.
RenameEdgeRefs_Stale(nx, moved, ix) == nx

RenameEdgeRefs(nx, moved, ix) ==
    <<RenameRef(nx[1], moved, ix), RenameRef(nx[2], moved, ix)>>

remove_edge_unchecked(ns, es, ix) ==
    IF ix >= Len(es)
    THEN [nodes |-> ns, edges |-> es, fault |-> "oob", ret |-> <<>>]
    ELSE
    LET e == es[ix + 1]
        stop(u) == [nodes |-> u.nodes, edges |-> u.edges, fault |-> u.fault, ret |-> <<>>]
    IN
    Bind(Unlink(ns, es, 0, e.node[1], ix, e.next[1]), LAMBDA u1 :
    IF u1.fault # "none" THEN stop(u1)
    ELSE
    Bind(Unlink(u1.nodes, u1.edges, 1, e.node[2], ix, e.next[2]), LAMBDA u2 :
    IF u2.fault # "none" THEN stop(u2)
    ELSE
    Bind(VecSwapRemove(u2.edges, ix), LAMBDA es3 :
    IF ix < Len(es3)
    THEN [nodes |-> [k \in 1..Len(u2.nodes) |->
                       [u2.nodes[k] EXCEPT !.next = RenameEdgeRefs(@, Len(es3), ix)]],
          edges |-> [k \in 1..Len(es3) |->
                       [es3[k] EXCEPT !.next = RenameEdgeRefs(@, Len(es3), ix)]],
          fault |-> "none", ret |-> <<e.data>>]
    ELSE [nodes |-> u2.nodes, edges |-> es3, fault |-> "none", ret |-> <<e.data>>])))

(***************************************************************************)
(* remove_node_unchecked: the outgoing indices are collected up front and  *)
(* removed one by one, then the incoming ones, then the node record is     *)
(* swap-removed and the endpoint references to the moved node rewritten.   *)
(***************************************************************************)
RECURSIVE RemoveEach(_, _, _)
RemoveEach(ns, es, ixs) ==
    IF ixs = <<>> THEN [nodes |-> ns, edges |-> es, fault |-> "none"]
    ELSE Bind(remove_edge_unchecked(ns, es, Head(ixs)), LAMBDA r :
              IF r.fault # "none"
              THEN [nodes |-> r.nodes, edges |-> r.edges, fault |-> r.fault]
              ELSE RemoveEach(r.nodes, r.edges, Tail(ixs)))

RenameNodeRefs(nd, moved, ix) ==
    <<RenameRef(nd[1], moved, ix), RenameRef(nd[2], moved, ix)>>

remove_node_unchecked(ns, es, ix) ==
    LET stop(r, f) == [nodes |-> r.nodes, edges |-> r.edges, fault |-> f, ret |-> <<>>]
    IN
    IF ix >= Len(ns)
    THEN [nodes |-> ns, edges |-> es, fault |-> "oob", ret |-> <<>>]
    ELSE IF Diverges(ns, es, 0, ix)
    THEN [nodes |-> ns, edges |-> es, fault |-> "hang", ret |-> <<>>]
    ELSE
    Bind(RemoveEach(ns, es, outgoing_edge_indices_unchecked(ns, es, ix)), LAMBDA r1 :
    IF r1.fault # "none" THEN stop(r1, r1.fault)
    ELSE IF Diverges(r1.nodes, r1.edges, 1, ix) THEN stop(r1, "hang")
    ELSE
    Bind(RemoveEach(r1.nodes, r1.edges,
                    incoming_edge_indices_unchecked(r1.nodes, r1.edges, ix)), LAMBDA r2 :
    IF r2.fault # "none" THEN stop(r2, r2.fault)
    ELSE
    Bind(VecSwapRemove(r2.nodes, ix), LAMBDA ns3 :
    [nodes |-> ns3,
     edges |-> IF ix < Len(ns3)
               THEN [k \in 1..Len(r2.edges) |->
                       [r2.edges[k] EXCEPT !.node = RenameNodeRefs(@, Len(ns3), ix)]]
               ELSE r2.edges,
     fault |-> "none",
     ret |-> <<r2.nodes[ix + 1].data>>])))

\* GraphRemoveEdge::remove_edge and GraphRemove::remove_node: the index is
\* checked, then the unchecked removal runs.
remove_edge(ns, es, ix) ==
    IF exists_edge_index(es, ix)
    THEN [ok |-> TRUE, r |-> remove_edge_unchecked(ns, es, ix)]
    ELSE [ok |-> FALSE, r |-> [nodes |-> ns, edges |-> es, fault |-> "none", ret |-> <<>>]]

remove_node(ns, es, ix) ==
    IF exists_node_index(ns, ix)
    THEN [ok |-> TRUE, r |-> remove_node_unchecked(ns, es, ix)]
    ELSE [ok |-> FALSE, r |-> [nodes |-> ns, edges |-> es, fault |-> "none", ret |-> <<>>]]

(***************************************************************************)
(* swap_remove: the delete-compaction of a flag array.  del_ord[k] is the  *)
(* pair (.0, .1) of the source, here (del, ord); arr is the array the      *)
(* callback cb swaps alongside.                                            *)
(***************************************************************************)
SwapAt(s, i, j) == [s EXCEPT ![i + 1] = s[j + 1], ![j + 1] = s[i + 1]]

\* while del_ord[j].0 == TO_REMOVE { j -= 1 }
RECURSIVE ScanDown(_, _)
ScanDown(del_ord, j) == IF del_ord[j + 1].del THEN ScanDown(del_ord, j - 1) ELSE j

\* while del_ord[i].0 != TO_REMOVE { i += 1 }
RECURSIVE ScanUp(_, _)
ScanUp(del_ord, i) == IF ~del_ord[i + 1].del THEN ScanUp(del_ord, i + 1) ELSE i

RECURSIVE SwapLoop(_, _, _, _)
SwapLoop(del_ord, arr, i, j) ==
    LET b == del_ord[i + 1].del
        d1 == [del_ord EXCEPT ![i + 1].del = FALSE]
        d2 == [d1 EXCEPT ![i + 1].del = b]
    IN  Bind(ScanDown(d1, j), LAMBDA j2 :
        IF i = j2
        THEN [alive |-> IF b THEN i ELSE i + 1, del_ord |-> d2, arr |-> arr]
        ELSE LET d3 == [d2 EXCEPT ![j2 + 1].del = TRUE]
                 d4 == [d3 EXCEPT ![j2 + 1].del = FALSE]
             IN  Bind(ScanUp(d3, i), LAMBDA i2 :
                 IF i2 = j2
                 THEN [alive |-> i2 + 1, del_ord |-> d4, arr |-> arr]
                 ELSE SwapLoop(SwapAt(d4, i2, j2), SwapAt(arr, i2, j2), i2, j2 - 1)))

\* `let mut j = del_ord.len() - 1` comes before the test for an empty slice:
\* on an empty slice the subtraction overflows, which panics in a build with
\* overflow checks and wraps (then returns 0) in a build without: wraps says
\* which build runs.
swap_remove(del_ord, arr, wraps) ==
    IF Len(del_ord) = 0
    THEN [alive |-> 0, del_ord |-> del_ord, arr |-> arr,
          fault |-> IF wraps THEN "none" ELSE "overflow"]
    ELSE Bind(SwapLoop(del_ord, arr, 0, Len(del_ord) - 1), LAMBDA r :
              [alive |-> r.alive, del_ord |-> r.del_ord, arr |-> r.arr, fault |-> "none"])

(***************************************************************************)
(* remove_nodes_edges_unchecked.  The marking state m carries the two flag *)
(* arrays, the collections cn and ce, and for every node and edge the      *)
(* number of times its record was read out with assume_init_read.          *)
(***************************************************************************)
InitOrd(n) == [i \in 1..n |-> [del |-> FALSE, ord |-> i - 1]]

\* lines 640-651 and 672-681: one edge index
MarkEdge(m, es, e) ==
    IF m.de[e + 1].del THEN m
    ELSE [m EXCEPT !.ce = Append(@, es[e + 1].data),
                   !.er[e + 1] = @ + 1,
                   !.de[e + 1].del = TRUE]

RECURSIVE MarkEdges(_, _, _)
MarkEdges(m, es, list) ==
    IF list = <<>> THEN m
    ELSE Bind(MarkEdge(m, es, Head(list)), LAMBDA m1 : MarkEdges(m1, es, Tail(list)))

\* lines 658-683: one node index; the record is read before the flag is tested
MarkNode(m, ns, es, n) ==
    LET m1 == [m EXCEPT !.nr[n + 1] = @ + 1]
        m2 == IF m1.dn[n + 1].del THEN m1
              ELSE [m1 EXCEPT !.cn = Append(@, ns[n + 1].data),
                              !.dn[n + 1].del = TRUE]
    IN  IF Diverges(ns, es, 0, n) \/ Diverges(ns, es, 1, n)
        THEN [m2 EXCEPT !.fault = "hang"]
        ELSE MarkEdges(m2, es, impl_get_edges(ns, es, 0, n) \o impl_get_edges(ns, es, 1, n))

RECURSIVE MarkNodes(_, _, _, _)
MarkNodes(m, ns, es, list) ==
    IF list = <<>> \/ m.fault # "none" THEN m
    ELSE Bind(MarkNode(m, ns, es, Head(list)), LAMBDA m1 :
              MarkNodes(m1, ns, es, Tail(list)))

\* lines 687-704: a chain field that is not END goes through del_ord_edge
EdgeRefsInRange(s, n) ==
    \A k \in 1..Len(s) : \A d \in 1..2 : is_end(s[k].next[d]) \/ s[k].next[d] < n

MapEdgeRef(r, del_ord) == IF is_end(r) THEN r ELSE del_ord[r + 1].ord

MapEdgeRefs(s, del_ord) ==
    [k \in 1..Len(s) |->
        [s[k] EXCEPT !.next = <<MapEdgeRef(@[1], del_ord), MapEdgeRef(@[2], del_ord)>>]]

\* lines 708-713: both endpoints of every edge go through del_ord_node
NodeRefsInRange(s, n) == \A k \in 1..Len(s) : \A d \in 1..2 : s[k].node[d] < n

MapNodeRefs(s, del_ord) ==
    [k \in 1..Len(s) |->
        [s[k] EXCEPT !.node = <<del_ord[@[1] + 1].ord, del_ord[@[2] + 1].ord>>]]

remove_nodes_edges_unchecked(ns, es, del_nodes, del_edges, wraps) ==
    LET m0 == [de |-> InitOrd(Len(es)), dn |-> InitOrd(Len(ns)),
               cn |-> <<>>, ce |-> <<>>,
               nr |-> [i \in 1..Len(ns) |-> 0], er |-> [i \in 1..Len(es) |-> 0],
               fault |-> "none"]
        out(m, ns2, es2, f) == [nodes |-> ns2, edges |-> es2, fault |-> f,
                                cn |-> m.cn, ce |-> m.ce, nr |-> m.nr, er |-> m.er]
    IN
    Bind(MarkEdges(m0, es, del_edges), LAMBDA me :
    Bind(MarkNodes(me, ns, es, del_nodes), LAMBDA m :
    IF m.fault # "none" THEN out(m, ns, es, m.fault)
    ELSE
    Bind(swap_remove(m.de, es, wraps), LAMBDA se :
    IF se.fault # "none" THEN out(m, ns, es, se.fault)
    ELSE
    Bind(SubSeq(se.arr, 1, se.alive), LAMBDA es1 :
    IF ~EdgeRefsInRange(es1, Len(se.del_ord)) THEN out(m, ns, es1, "oob")
    ELSE
    Bind(MapEdgeRefs(es1, se.del_ord), LAMBDA es2 :
    IF ~EdgeRefsInRange(ns, Len(se.del_ord)) THEN out(m, ns, es2, "oob")
    ELSE
    Bind(MapEdgeRefs(ns, se.del_ord), LAMBDA ns1 :
    Bind(swap_remove(m.dn, ns1, wraps), LAMBDA sn :
    IF sn.fault # "none" THEN out(m, ns1, es2, sn.fault)
    ELSE
    Bind(SubSeq(sn.arr, 1, sn.alive), LAMBDA ns2 :
    IF ~NodeRefsInRange(es2, Len(sn.del_ord)) THEN out(m, ns2, es2, "oob")
    ELSE out(m, ns2, MapNodeRefs(es2, sn.del_ord), "none")))))))))

(***************************************************************************)
(* The state machine.  nodes and edges are the two Vecs of the store;      *)
(* fault is "none" until an operation ends abnormally (then the program    *)
(* has stopped and the store is what the operation left); last records the *)
(* latest call: its name, its index arguments (args, and args2 for the     *)
(* edge list of a batch removal), its payload arguments (data), whether    *)
(* its index check passed (ok) and what it returned: indices (rix), node   *)
(* payloads (cn), edge payloads (ce) and, for a batch removal, how often   *)
(* each node and edge record was read out (nr, er), and for tarjan the     *)
(* groups (sccs) and the deepest nesting of visit (depth), and for an      *)
(* operation of a session the session (scope) and the handles it was       *)
(* called with (tags).  batches counts the batch removals; sess is the     *)
(* state of the sessions.                                                  *)
(***************************************************************************)
Call(op) == [op |-> op, args |-> <<>>, args2 |-> <<>>, data |-> <<>>, ok |-> TRUE,
             rix |-> <<>>, cn |-> <<>>, ce |-> <<>>, nr |-> <<>>, er |-> <<>>,
             sccs |-> <<>>, depth |-> 0, scope |-> <<>>, tags |-> <<>>,
             mp |-> <<>>, calls |-> <<>>, steps |-> 0, other |-> <<>>]

\* No session has been opened: open holds the sessions whose closure is still
\* running, the innermost last, each with its marker m, its store and whether
\* remove_nodes_edges has consumed it (used); fresh is the marker of the next
\* session, tags the handles and mappings the program holds, serial the number
\* of elements added through sessions, other the number of nodes of a second
\* store, forged the number of writes to the index field of a handle.
NoSession == [open |-> <<>>, fresh |-> 0, tags |-> {}, serial |-> 0, other |-> 0,
              forged |-> 0]

\* index lists of length at most n over 0..hi-1
RECURSIVE Lists(_, _)
Lists(hi, n) ==
    IF n = 0 THEN {<<>>}
    ELSE Lists(hi, n - 1) \cup
         {Append(l, i) : l \in {x \in Lists(hi, n - 1) : Len(x) = n - 1}, i \in 0..(hi - 1)}

Init ==
    /\ nodes = <<>>
    /\ edges = <<>>
    /\ fault = "none"
    /\ last = Call("default")
    /\ batches = 0
    /\ sess = NoSession

\* GraphUpdate::add_node
AddNode(d, cap) ==
    /\ fault = "none"
    /\ Len(nodes) + Len(edges) < cap
    /\ \E r \in {add_node(nodes, d)} :
           /\ nodes' = r.nodes
           /\ last' = [Call("add_node") EXCEPT !.data = <<d>>, !.rix = <<r.ix>>]
    /\ UNCHANGED <<edges, fault, batches, sess>>

\* GraphUpdate::add_edge
AddEdge(d, from, to, cap) ==
    /\ fault = "none"
    /\ \E c \in {add_edge(nodes, edges, d, from, to)} :
           /\ c.ok => Len(nodes) + Len(edges) < cap
           /\ nodes' = c.r.nodes
           /\ edges' = c.r.edges
           /\ fault' = c.r.fault
           /\ last' = [Call("add_edge") EXCEPT !.args = <<from, to>>, !.data = <<d>>,
                                               !.ok = c.ok, !.rix = c.r.ix]
    /\ UNCHANGED <<batches, sess>>

\* GraphRemoveEdge::remove_edge
RemoveEdge(ix) ==
    /\ fault = "none"
    /\ \E c \in {remove_edge(nodes, edges, ix)} :
           /\ nodes' = c.r.nodes
           /\ edges' = c.r.edges
           /\ fault' = c.r.fault
           /\ last' = [Call("remove_edge") EXCEPT !.args = <<ix>>, !.ok = c.ok,
                                                  !.ce = c.r.ret]
    /\ UNCHANGED <<batches, sess>>

\* GraphRemove::remove_node
RemoveNode(ix) ==
    /\ fault = "none"
    /\ \E c \in {remove_node(nodes, edges, ix)} :
           /\ nodes' = c.r.nodes
           /\ edges' = c.r.edges
           /\ fault' = c.r.fault
           /\ last' = [Call("remove_node") EXCEPT !.args = <<ix>>, !.ok = c.ok,
                                                  !.cn = c.r.ret]
    /\ UNCHANGED <<batches, sess>>

\* Context::remove_nodes_edges: the handles of a session are indices of the
\* store, listed in any order and any number of times.
RemoveNodesEdges(del_nodes, del_edges, wraps) ==
    /\ fault = "none"
    /\ batches < MaxBatches
    /\ batches' = batches + 1
    /\ \E r \in {remove_nodes_edges_unchecked(nodes, edges, del_nodes, del_edges, wraps)} :
           /\ nodes' = r.nodes
           /\ edges' = r.edges
           /\ fault' = r.fault
           /\ last' = [Call("remove_nodes_edges") EXCEPT
                          !.args = del_nodes, !.args2 = del_edges,
                          !.cn = r.cn, !.ce = r.ce, !.nr = r.nr, !.er = r.er]
    /\ UNCHANGED sess

\* Graph::node
Node(ix) ==
    /\ fault = "none"
    /\ \E c \in {node(nodes, ix)} :
           /\ fault' = c.r.fault
           /\ last' = [Call("node") EXCEPT !.args = <<ix>>, !.ok = c.ok, !.cn = c.r.ret]
    /\ UNCHANGED <<nodes, edges, batches, sess>>

\* Graph::edge
Edge(ix) ==
    /\ fault = "none"
    /\ \E c \in {edge(edges, ix)} :
           /\ fault' = c.r.fault
           /\ last' = [Call("edge") EXCEPT !.args = <<ix>>, !.ok = c.ok, !.ce = c.r.ret]
    /\ UNCHANGED <<nodes, edges, batches, sess>>

\* Graph::endpoints
Endpoints(ix) ==
    /\ fault = "none"
    /\ \E c \in {endpoints(edges, ix)} :
           /\ fault' = c.r.fault
           /\ last' = [Call("endpoints") EXCEPT !.args = <<ix>>, !.ok = c.ok,
                                                !.rix = c.r.ret]
    /\ UNCHANGED <<nodes, edges, batches, sess>>

\* Graph::node_mut and the caller's write through the reference
NodeMut(ix, d) ==
    /\ fault = "none"
    /\ \E c \in {node_mut(nodes, ix, d)} :
           /\ nodes' = c.r.arr
           /\ fault' = c.r.fault
           /\ last' = [Call("node_mut") EXCEPT !.args = <<ix>>, !.data = <<d>>,
                                               !.ok = c.ok]
    /\ UNCHANGED <<edges, batches, sess>>

\* Graph::edge_mut and the caller's write through the reference
EdgeMut(ix, d) ==
    /\ fault = "none"
    /\ \E c \in {edge_mut(edges, ix, d)} :
           /\ edges' = c.r.arr
           /\ fault' = c.r.fault
           /\ last' = [Call("edge_mut") EXCEPT !.args = <<ix>>, !.data = <<d>>,
                                               !.ok = c.ok]
    /\ UNCHANGED <<nodes, batches, sess>>

\* Index arguments: the indices of the store, and those with the first one past
\* the end.
NodeIxs == 0..(Len(nodes) - 1)
EdgeIxs == 0..(Len(edges) - 1)
NodeArgs == 0..Len(nodes)
EdgeArgs == 0..Len(edges)

\* Every operation that changes the structure of the store, on indices of the
\* store; at most MaxBatches batch removals in one run.
Next ==
    \/ \E d \in NodeData : AddNode(d, MaxSize)
    \/ \E d \in EdgeData : \E from \in NodeIxs : \E to \in NodeIxs : AddEdge(d, from, to, MaxSize)
    \/ \E ix \in EdgeIxs : RemoveEdge(ix)
    \/ \E ix \in NodeIxs : RemoveNode(ix)
    \/ \E dn \in Lists(Len(nodes), MaxDel) : \E de \in Lists(Len(edges), MaxDel) :
          \E wraps \in (IF Len(nodes) = 0 \/ Len(edges) = 0 THEN BOOLEAN ELSE {TRUE}) :
             RemoveNodesEdges(dn, de, wraps)

Spec == Init /\ [][Next]_vars

\* The store under add_node, add_edge, remove_edge and remove_node alone.
NextSingle ==
    \/ \E d \in NodeData : AddNode(d, MaxSingle)
    \/ \E d \in EdgeData : \E from \in NodeIxs : \E to \in NodeIxs : AddEdge(d, from, to, MaxSingle)
    \/ \E ix \in EdgeIxs : RemoveEdge(ix)
    \/ \E ix \in NodeIxs : RemoveNode(ix)

SpecSingle == Init /\ [][NextSingle]_vars

\* The store under add_node and add_edge alone.
NextAdd ==
    \/ \E d \in NodeData : AddNode(d, MaxSize)
    \/ \E d \in EdgeData : \E from \in NodeArgs : \E to \in NodeArgs : AddEdge(d, from, to, MaxSize)

SpecAdd == Init /\ [][NextAdd]_vars

\* The checked operations, called with indices of the store and with the first
\* index past its end.
NextChecked ==
    \/ \E d \in NodeData : AddNode(d, MaxSize)
    \/ \E d \in EdgeData : \E from \in NodeArgs : \E to \in NodeArgs : AddEdge(d, from, to, MaxSize)
    \/ \E ix \in EdgeArgs : RemoveEdge(ix)
    \/ \E ix \in NodeArgs : RemoveNode(ix)
    \/ \E ix \in NodeArgs : Node(ix)
    \/ \E ix \in EdgeArgs : Edge(ix)
    \/ \E ix \in EdgeArgs : Endpoints(ix)
    \/ \E ix \in NodeArgs : \E d \in NodeData : NodeMut(ix, d)
    \/ \E ix \in EdgeArgs : \E d \in EdgeData : EdgeMut(ix, d)

SpecChecked == Init /\ [][NextChecked]_vars

(***************************************************************************)
(* What the properties speak of.                                           *)
(***************************************************************************)
ToSet(q) == {q[k] : k \in 1..Len(q)}
NoDup(q) == Cardinality(ToSet(q)) = Len(q)
Count(q, x) == Cardinality({k \in 1..Len(q) : q[k] = x})
SameBag(p, q) == /\ Len(p) = Len(q)
                 /\ \A k \in 1..Len(p) : Count(p, p[k]) = Count(q, p[k])
Ixs(s) == 0..(Len(s) - 1)

\* The stored edges that have node n as source (dir = 0) or target (dir = 1).
EdgesAt(es, dir, n) == {e \in Ixs(es) : es[e + 1].node[dir + 1] = n}

\* Each adjacency query yields exactly the stored edges of that endpoint, once.
ChainsExact(ns, es) ==
    \A n \in Ixs(ns) : \A dir \in {0, 1} :
        LET q == impl_get_edges(ns, es, dir, n)
        IN  NoDup(q) /\ ToSet(q) = EdgesAt(es, dir, n)

\* Every chain pointer is END or the index of a stored edge.
PointersValid(ns, es) ==
    /\ \A k \in 1..Len(ns) : \A d \in 1..2 : is_end(ns[k].next[d]) \/ ns[k].next[d] < Len(es)
    /\ \A k \in 1..Len(es) : \A d \in 1..2 : is_end(es[k].next[d]) \/ es[k].next[d] < Len(es)

\* The edges of a store as (payload, source, target), the nodes renamed by f.
Triples(es, f) == [k \in 1..Len(es) |-> <<es[k].data, f[es[k].node[1]], f[es[k].node[2]]>>]
Ident(n) == [i \in 0..(n - 1) |-> i]
Perms(n) == {f \in [0..(n - 1) -> 0..(n - 1)] : \A i, j \in 0..(n - 1) : f[i] = f[j] => i = j}

\* Two stores hold the same graph up to a renumbering of their indices.
SameGraph(ns1, es1, ns2, es2) ==
    /\ Len(ns1) = Len(ns2)
    /\ Len(es1) = Len(es2)
    /\ NodeRefsInRange(es1, Len(ns1))
    /\ NodeRefsInRange(es2, Len(ns2))
    /\ \E f \in Perms(Len(ns1)) :
          /\ \A i \in Ixs(ns1) : ns1[i + 1].data = ns2[f[i] + 1].data
          /\ SameBag(Triples(es1, f), Triples(es2, Ident(Len(ns2))))
    /\ ChainsExact(ns1, es1)
    /\ ChainsExact(ns2, es2)

\* The elements of a set of indices, the highest first.
RECURSIVE Desc(_)
Desc(S) == IF S = {} THEN <<>>
           ELSE LET m == CHOOSE x \in S : \A y \in S : y <= x
                IN  <<m>> \o Desc(S \ {m})

\* remove_node on each index of ixs in turn.
RECURSIVE RemoveNodesEach(_, _, _)
RemoveNodesEach(ns, es, ixs) ==
    IF ixs = <<>> THEN [nodes |-> ns, edges |-> es, fault |-> "none"]
    ELSE LET r == remove_node_unchecked(ns, es, Head(ixs))
         IN  IF r.fault # "none"
             THEN [nodes |-> r.nodes, edges |-> r.edges, fault |-> r.fault]
             ELSE RemoveNodesEach(r.nodes, r.edges, Tail(ixs))

\* The edges a batch removal of node list dn and edge list de is to remove.
Doomed(es, dn, de) ==
    ToSet(de) \cup {e \in Ixs(es) : \/ es[e + 1].node[1] \in ToSet(dn)
                                    \/ es[e + 1].node[2] \in ToSet(dn)}

\* One at a time: every edge of Doomed with remove_edge, then every node of dn
\* with remove_node, the highest index first (no removal then moves a record
\* that is still to be removed).
OneAtATime(ns, es, dn, de) ==
    LET r == RemoveEach(ns, es, Desc(Doomed(es, dn, de)))
    IN  IF r.fault # "none" THEN r
        ELSE RemoveNodesEach(r.nodes, r.edges, Desc(ToSet(dn)))

(***************************************************************************)
(* C1: in every state reached without a fault, for every node the outgoing *)
(* query yields exactly the stored edges with that source and the incoming *)
(* query exactly those with that target, each once, and every chain        *)
(* pointer is END or the index of a stored edge.                           *)
(***************************************************************************)
C1_ChainsExact ==
    fault = "none" => ChainsExact(nodes, edges) /\ PointersValid(nodes, edges)

(***************************************************************************)
(* C2: a batch removal that returns leaves the same graph, up to           *)
(* renumbering and with adjacency queries that agree with the endpoints,   *)
(* as removing the same edges and nodes one at a time.                     *)
(***************************************************************************)
C2_BatchAsOneAtATime ==
    [][(last'.op = "remove_nodes_edges" /\ fault' = "none") =>
          LET ref == OneAtATime(nodes, edges, last'.args, last'.args2)
          IN  /\ ref.fault = "none"
              /\ SameGraph(nodes', edges', ref.nodes, ref.edges)]_vars

\* The renumbering of nodes by remove_node(ix): the last node takes index ix.
AfterNodeMove(ns, ix) == [i \in Ixs(ns) |-> IF i = Len(ns) - 1 THEN ix ELSE i]
\* The edges that have node ix neither as source nor as target.
NotIncident(es, ix) ==
    SelectSeq(es, LAMBDA e : e.node[1] # ix /\ e.node[2] # ix)

(***************************************************************************)
(* C3: remove_node on a live index completes without an out-of-range       *)
(* access, returns that node's payload, decreases the node count by one    *)
(* and removes exactly the edges that had the node as source or target.    *)
(***************************************************************************)
C3_RemoveNode ==
    [][(last'.op = "remove_node" /\ last'.ok) =>
          LET ix == last'.args[1]
          IN  /\ fault' = "none"
              /\ last'.cn = <<nodes[ix + 1].data>>
              /\ Len(nodes') = Len(nodes) - 1
              /\ SameBag(Triples(edges', Ident(Len(nodes'))),
                         Triples(NotIncident(edges, ix), AfterNodeMove(nodes, ix)))]_vars

\* The renumbering of edges by remove_edge(e): the last edge takes index e.
AfterEdgeMove(es, e) == [k \in Ixs(es) |-> IF k = Len(es) - 1 THEN e ELSE k]
\* A sequence of indices without e, and with its indices renamed by f.
Without(q, e) == SelectSeq(q, LAMBDA k : k # e)
Renamed(q, f) == [k \in 1..Len(q) |-> f[q[k]]]

(***************************************************************************)
(* C4: remove_edge on a live index e returns the payload of e, decreases   *)
(* the edge count by one, and afterwards every adjacency sequence is the   *)
(* one before without e, in the same order (the edge that was last now     *)
(* carrying index e).                                                      *)
(***************************************************************************)
C4_RemoveEdge ==
    [][(last'.op = "remove_edge" /\ last'.ok) =>
          LET e == last'.args[1]
          IN  /\ fault' = "none"
              /\ last'.ce = <<edges[e + 1].data>>
              /\ Len(edges') = Len(edges) - 1
              /\ Len(nodes') = Len(nodes)
              /\ \A n \in Ixs(nodes) : \A dir \in {0, 1} :
                    impl_get_edges(nodes', edges', dir, n)
                      = Renamed(Without(impl_get_edges(nodes, edges, dir, n), e),
                                AfterEdgeMove(edges, e))]_vars

(***************************************************************************)
(* C5: a remove_edge(e) that returns leaves the node count and every node  *)
(* payload as they were; every other edge keeps its payload and endpoints; *)
(* only the edge that was stored last changes its index, to e; and every   *)
(* stored reference to that edge is e afterwards.                          *)
(***************************************************************************)
C5_RemoveEdgeFrame ==
    [][(last'.op = "remove_edge" /\ last'.ok /\ fault' = "none") =>
          LET e == last'.args[1]
              lastIx == Len(edges) - 1
              f == AfterEdgeMove(edges, e)
          IN  /\ Len(nodes') = Len(nodes)
              /\ \A n \in Ixs(nodes) : nodes'[n + 1].data = nodes[n + 1].data
              /\ Len(edges') = Len(edges) - 1
              /\ \A k \in Ixs(edges) \ {e} :
                    /\ edges'[f[k] + 1].data = edges[k + 1].data
                    /\ edges'[f[k] + 1].node = edges[k + 1].node
              /\ \A n \in Ixs(nodes) : \A d \in 1..2 :
                    /\ e # lastIx => nodes'[n + 1].next[d] # lastIx
                    /\ (e # lastIx /\ nodes[n + 1].next[d] = lastIx)
                          => nodes'[n + 1].next[d] = e
              /\ \A k \in Ixs(edges) \ {e} : \A d \in 1..2 :
                    /\ e # lastIx => edges'[f[k] + 1].next[d] # lastIx
                    /\ (e # lastIx /\ edges[k + 1].next[d] = lastIx)
                          => edges'[f[k] + 1].next[d] = e]_vars

\* An edge was removed from below the last slot, and a continuation field of
\* another edge now refers to the edge that took its index.
C5_Witness ==
    /\ last.op = "remove_edge" /\ last.ok /\ fault = "none"
    /\ last.args[1] < Len(edges)
    /\ \E k \in Ixs(edges) : edges[k + 1].next[2] = last.args[1]
    /\ \A n \in Ixs(nodes) : nodes[n + 1].next[2] # last.args[1]

\* The payloads of the records of s with an index in S.
PayloadsOf(s, S) == LET q == Desc(S) IN [k \in 1..Len(q) |-> s[q[k] + 1].data]

(***************************************************************************)
(* C6: a batch removal that returns gives back the payload of every        *)
(* removed node once and of every removed edge once, however often an      *)
(* index is listed, and reads every removed record out of the store        *)
(* exactly once and no surviving record at all.                            *)
(***************************************************************************)
C6_BatchReturnsOnce ==
    [][(last'.op = "remove_nodes_edges" /\ fault' = "none") =>
          LET dn == ToSet(last'.args)
              de == Doomed(edges, last'.args, last'.args2)
          IN  /\ SameBag(last'.cn, PayloadsOf(nodes, dn))
              /\ SameBag(last'.ce, PayloadsOf(edges, de))
              /\ \A n \in Ixs(nodes) : last'.nr[n + 1] = IF n \in dn THEN 1 ELSE 0
              /\ \A e \in Ixs(edges) : last'.er[e + 1] = IF e \in de THEN 1 ELSE 0]_vars

(***************************************************************************)
(* The checked operations, by the kind of index they take, and the index   *)
(* and the count a call is measured against.                               *)
(***************************************************************************)
NodeOps == {"node", "node_mut", "remove_node"}
EdgeOps == {"edge", "endpoints", "edge_mut", "remove_edge"}
CheckedOps == NodeOps \cup EdgeOps
CountFor(op, ns, es) == IF op \in NodeOps THEN Len(ns) ELSE Len(es)
ReturnsNothing(c) == c.cn = <<>> /\ c.ce = <<>> /\ c.rix = <<>>

C8_AddEdgeInvalid ==
    [][(/\ last'.op = "add_edge"
        /\ \/ last'.args[1] \notin Ixs(nodes)
           \/ last'.args[2] \notin Ixs(nodes))
          => /\ ~last'.ok
             /\ fault' = "none"
             /\ last'.rix = <<>>
             /\ Len(nodes') = Len(nodes) /\ Len(edges') = Len(edges)
             /\ \A n \in Ixs(nodes) : nodes'[n + 1].data = nodes[n + 1].data
             /\ \A e \in Ixs(edges) : /\ edges'[e + 1].data = edges[e + 1].data
                                      /\ edges'[e + 1].node = edges[e + 1].node
             /\ \A n \in Ixs(nodes) : \A dir \in {0, 1} :
                   impl_get_edges(nodes', edges', dir, n)
                     = impl_get_edges(nodes, edges, dir, n)]_vars

\* add_edge has failed on a store that holds nodes and edges.
C8_Witness ==
    /\ last.op = "add_edge" /\ ~last.ok
    /\ Len(nodes) >= 2 /\ Len(edges) >= 1
    /\ last.args[1] \in Ixs(nodes) /\ last.args[2] = Len(nodes)

\* The indices existence is asked of: those of a full store and two past it.
Probe == 0..(MaxSize + 1)

(***************************************************************************)
(* C9: under add_node and add_edge alone, exists_node_index(i) is true     *)
(* exactly for the indices add_node has returned and exists_edge_index(j)  *)
(* exactly for those add_edge has returned: no index exists at first, and  *)
(* every call makes exist the index it returns and no other.               *)
(***************************************************************************)
C9_ExistsIffReturned ==
    /\ \A i \in Probe : ~exists_node_index(nodes, i) /\ ~exists_edge_index(edges, i)
    /\ [][/\ \A i \in Probe :
                exists_node_index(nodes', i) <=>
                   \/ exists_node_index(nodes, i)
                   \/ last'.op = "add_node" /\ last'.rix = <<i>>
          /\ \A j \in Probe :
                exists_edge_index(edges', j) <=>
                   \/ exists_edge_index(edges, j)
                   \/ last'.op = "add_edge" /\ last'.rix = <<j>>]_vars

\* Two nodes and two edges have been added, the last call an add_edge.
C9_Witness ==
    /\ last.op = "add_edge" /\ last.ok /\ last.rix = <<1>>
    /\ Len(nodes) >= 2 /\ Len(edges) = 2

\* Call c mutates or removes node ix.
Touches(c, ix) == c.op \in {"node_mut", "remove_node"} /\ c.ok /\ c.args = <<ix>>

(***************************************************************************)
(* C10, as stated: node(ix) keeps returning the payload it returned        *)
(* before, over every call that neither mutates nor removes node ix, and   *)
(* returns x for the index add_node(x) has just returned.                  *)
(***************************************************************************)
C10_NodeRoundTrip ==
    [][fault' = "none" =>
          /\ last'.op = "add_node" =>
                LET c == node(nodes', last'.rix[1])
                IN  c.ok /\ c.r.ret = last'.data
          /\ \A ix \in Ixs(nodes) :
                ~Touches(last', ix) =>
                   LET c == node(nodes', ix)
                   IN  c.ok /\ c.r.ret = <<nodes[ix + 1].data>>]_vars

(***************************************************************************)
(* C10, amended: the same over every call that removes no node: node(ix)   *)
(* keeps its payload across additions, edge removals and mutations of      *)
(* other elements, and returns x for the index add_node(x) returned.       *)
(***************************************************************************)
C10_NodeRoundTripNoNodeRemoval ==
    [][(fault' = "none" /\ ~(last'.op = "remove_node" /\ last'.ok)) =>
          /\ last'.op = "add_node" =>
                LET c == node(nodes', last'.rix[1])
                IN  c.ok /\ c.r.ret = last'.data
          /\ \A ix \in Ixs(nodes) :
                ~Touches(last', ix) =>
                   LET c == node(nodes', ix)
                   IN  c.ok /\ c.r.ret = <<nodes[ix + 1].data>>]_vars

\* Node 0 is read after an edge was removed, with another node stored.
C10_Witness ==
    /\ last.op = "node" /\ last.ok /\ last.args = <<0>>
    /\ last.cn = <<nodes[1].data>>
    /\ Len(nodes) >= 2 /\ Len(edges) >= 1
    /\ nodes[1].data # nodes[2].data

(***************************************************************************)
(* Graph::connecting_edge_indices_unchecked: the outgoing iterator chained *)
(* with the incoming one.  The second iterator starts when the first has   *)
(* ended; behind an outgoing iterator that never ends it is never reached. *)
(***************************************************************************)
connecting_edge_indices_unchecked(ns, es, tag) ==
    IF Diverges(ns, es, 0, tag)
    THEN outgoing_edge_indices_unchecked(ns, es, tag)
    ELSE outgoing_edge_indices_unchecked(ns, es, tag)
            \o incoming_edge_indices_unchecked(ns, es, tag)

\* The connecting query of node n comes to an end.
ConnectingEnds(ns, es, n) == ~Diverges(ns, es, 0, n) /\ ~Diverges(ns, es, 1, n)

\* The stored self-loops at node n.
SelfLoopsAt(es, n) == EdgesAt(es, 0, n) \cap EdgesAt(es, 1, n)

(***************************************************************************)
(* C11: in every state reached without a fault, for every node n the       *)
(* connecting query ends and yields the outgoing edges followed by the     *)
(* incoming edges: each edge as often as both queries together, its length *)
(* the sum of theirs, and every stored self-loop at n twice.               *)
(***************************************************************************)
C11_Connecting ==
    fault = "none" =>
       \A n \in Ixs(nodes) :
          LET c == connecting_edge_indices_unchecked(nodes, edges, n)
              o == outgoing_edge_indices_unchecked(nodes, edges, n)
              i == incoming_edge_indices_unchecked(nodes, edges, n)
          IN  /\ ConnectingEnds(nodes, edges, n)
              /\ c = o \o i
              /\ Len(c) = Len(o) + Len(i)
              /\ \A e \in Ixs(edges) : Count(c, e) = Count(o, e) + Count(i, e)
              /\ \A e \in SelfLoopsAt(edges, n) : Count(c, e) = 2

(***************************************************************************)
(* VecGraph::node_indices / edge_indices: the indices from 0 up to the     *)
(* length of the vector, in order.                                         *)
(***************************************************************************)
\* Indices that start at 1.
node_indices_From1(ns) == [k \in 1..Len(ns) |-> k]

node_indices(ns) == [k \in 1..Len(ns) |-> k - 1]
edge_indices(es) == [k \in 1..Len(es) |-> k - 1]

\* The indices of the store are those that exist, each once and in order.
Dense(ns, es) ==
    /\ Len(node_indices(ns)) = Len(ns)
    /\ Len(edge_indices(es)) = Len(es)
    /\ \A k \in 1..Len(ns) : node_indices(ns)[k] = k - 1
    /\ \A k \in 1..Len(es) : edge_indices(es)[k] = k - 1
    /\ \A i \in Probe : exists_node_index(ns, i) <=> i \in ToSet(node_indices(ns))
    /\ \A j \in Probe : exists_edge_index(es, j) <=> j \in ToSet(edge_indices(es))

(***************************************************************************)
(* C12: add_node returns the number of nodes stored before the call and a  *)
(* successful add_edge the number of edges stored before it, and in every  *)
(* state reached without a fault, after any additions and removals, the    *)
(* node indices are exactly 0 .. len_nodes - 1 and the edge indices        *)
(* exactly 0 .. len_edges - 1.                                             *)
(***************************************************************************)
C12_DenseIndices ==
    /\ [](fault = "none" => Dense(nodes, edges))
    /\ [][/\ last'.op = "add_node" =>
                last'.rix = <<Len(nodes)>> /\ Len(nodes') = Len(nodes) + 1
          /\ (last'.op = "add_edge" /\ last'.ok) =>
                last'.rix = <<Len(edges)>> /\ Len(edges') = Len(edges) + 1]_vars

\* An edge is added to a store that a batch removal has made smaller.
C12_Witness ==
    /\ last.op = "add_edge" /\ last.ok /\ last.rix = <<Len(edges) - 1>>
    /\ batches = 1
    /\ Len(nodes) >= 2 /\ Len(edges) >= 2

(***************************************************************************)
(* C13: after a successful add_edge(data, from, to) the new edge is the    *)
(* first of the outgoing sequence of from and the first of the incoming    *)
(* sequence of to, each followed by the sequence of before the call, and   *)
(* the outgoing sequence of every other node and the incoming sequence of  *)
(* every other node are as before; for from < to, from > to and from = to. *)
(***************************************************************************)
C13_AddEdgeAtHead ==
    [][(last'.op = "add_edge" /\ last'.ok /\ fault' = "none") =>
          LET from == last'.args[1]
              to   == last'.args[2]
              e    == last'.rix[1]
          IN  /\ outgoing_edge_indices_unchecked(nodes', edges', from)
                    = <<e>> \o outgoing_edge_indices_unchecked(nodes, edges, from)
              /\ incoming_edge_indices_unchecked(nodes', edges', to)
                    = <<e>> \o incoming_edge_indices_unchecked(nodes, edges, to)
              /\ \A n \in Ixs(nodes) :
                    /\ n # from =>
                          outgoing_edge_indices_unchecked(nodes', edges', n)
                             = outgoing_edge_indices_unchecked(nodes, edges, n)
                    /\ n # to =>
                          incoming_edge_indices_unchecked(nodes', edges', n)
                             = incoming_edge_indices_unchecked(nodes, edges, n)]_vars

(***************************************************************************)
(* algo::tarjan over the store.  node_states maps every node to its        *)
(* TarjanState: index is <<>> for None and <<i>> for Some(i).  The record  *)
(* that visit threads through its calls holds node_states, stack,          *)
(* index_counter and sccs, with depth, the deepest nesting of visit calls  *)
(* so far, and fault: "panic" for a failed assertion or index, "hang" for  *)
(* a successor loop over an iterator that never ends.  It also keeps the   *)
(* history of the run: trace, what was seen after every push and pop, and  *)
(* pops, the stack before and after every pop loop with the root of it.    *)
(***************************************************************************)
TarjanState == [index |-> <<>>, lowlink |-> 0, on_stack |-> FALSE]

Min(a, b) == IF a < b THEN a ELSE b

\* format!("{:?}", w) of a NodeIx
FmtNodeIx(ix) == <<"NodeIx", ix>>

\* A loop end test that holds for every popped node.
IsVisited_Any(w, tag) == TRUE

\* the test that ends the pop loop: the two locals are never the same place,
\* so the formatted indices decide
IsVisited(w, tag) == FmtNodeIx(w) = FmtNodeIx(tag)

\* What an observer of a run sees after a push or a pop: the stack and the
\* set of nodes whose on_stack flag is set.  st.trace collects these.
Snap(st) ==
    [stack |-> st.stack,
     flagged |-> {n \in 0..(Len(st.node_states) - 1) : st.node_states[n + 1].on_stack}]

Observed(st) == [st EXCEPT !.trace = Append(@, Snap(st))]

\* visit, lines 118-125: index and lowlink are set, the node is pushed
Enter(st, tag, d) ==
    Observed([st EXCEPT !.node_states[tag + 1] =
                            [index |-> <<st.index_counter>>, lowlink |-> st.index_counter,
                             on_stack |-> TRUE],
                        !.index_counter = @ + 1,
                        !.stack = Append(@, tag),
                        !.depth = IF d > @ THEN d ELSE @])

\* visit, lines 145-159: pop down to and including the root
RECURSIVE PopScc(_, _, _)
PopScc(st, tag, scc_nodes) ==
    IF st.stack = <<>> THEN [st EXCEPT !.fault = "panic"]
    ELSE Bind(st.stack[Len(st.stack)], LAMBDA w :
           Bind(Observed([st EXCEPT !.stack = SubSeq(@, 1, Len(@) - 1),
                                    !.node_states[w + 1].on_stack = FALSE]),
                LAMBDA s :
                   IF IsVisited(w, tag)
                   THEN [s EXCEPT !.sccs = Append(@, Append(scc_nodes, w))]
                   ELSE PopScc(s, tag, Append(scc_nodes, w))))

\* lowlink of tag folded with v
FoldLow(st, tag, v) ==
    [st EXCEPT !.node_states[tag + 1].lowlink = Min(@, v)]

RECURSIVE visit(_, _, _, _, _)
RECURSIVE Successor(_, _, _, _, _, _)
RECURSIVE Successors(_, _, _, _, _, _)

\* visit, lines 128-143: the body of the loop for one outgoing edge
Successor(ns, es, tag, successor, st, d) ==
    Bind(endpoints(es, successor), LAMBDA c :
       IF ~c.ok \/ c.r.fault # "none" THEN [st EXCEPT !.fault = "panic"]
       ELSE Bind(c.r.ret[2], LAMBDA to_node :
          IF to_node >= Len(st.node_states) THEN [st EXCEPT !.fault = "panic"]
          ELSE IF st.node_states[to_node + 1].index = <<>>
          THEN Bind(visit(ns, es, to_node, st, d + 1), LAMBDA s :
                  IF s.fault # "none" THEN s
                  ELSE FoldLow(s, tag, s.node_states[to_node + 1].lowlink))
          ELSE IF st.node_states[to_node + 1].on_stack
          THEN FoldLow(st, tag, st.node_states[to_node + 1].index[1])
          ELSE st))

Successors(ns, es, tag, succs, st, d) ==
    IF succs = <<>> \/ st.fault # "none" THEN st
    ELSE Successors(ns, es, tag, Tail(succs),
                    Successor(ns, es, tag, Head(succs), st, d), d)

\* visit, called at nesting depth d; Graph::outgoing_edge_indices asserts
\* that the node exists
visit(ns, es, tag, st, d) ==
    IF ~exists_node_index(ns, tag) THEN [st EXCEPT !.fault = "panic"]
    ELSE Bind(Successors(ns, es, tag, outgoing_edge_indices_unchecked(ns, es, tag),
                         Enter(st, tag, d), d),
              LAMBDA s :
                 IF s.fault # "none" THEN s
                 ELSE IF Diverges(ns, es, 0, tag) THEN [s EXCEPT !.fault = "hang"]
                 ELSE IF s.node_states[tag + 1].lowlink = s.node_states[tag + 1].index[1]
                 THEN Bind(PopScc(s, tag, <<>>), LAMBDA p :
                         [p EXCEPT !.pops = Append(@, [root |-> tag, before |-> s.stack,
                                                        after |-> p.stack,
                                                        fault |-> p.fault])])
                 ELSE s)

\* tarjan, lines 93-104: every node not yet visited is visited
RECURSIVE VisitEach(_, _, _, _)
VisitEach(ns, es, ixs, st) ==
    IF ixs = <<>> \/ st.fault # "none" THEN st
    ELSE VisitEach(ns, es, Tail(ixs),
                   IF st.node_states[Head(ixs) + 1].index = <<>>
                   THEN visit(ns, es, Head(ixs), st, 1)
                   ELSE st)

tarjan(ns, es) ==
    VisitEach(ns, es, node_indices(ns),
              [node_states |-> [k \in 1..Len(ns) |-> TarjanState],
               stack |-> <<>>, index_counter |-> 0, sccs |-> <<>>,
               depth |-> 0, fault |-> "none", trace |-> <<>>, pops |-> <<>>])

\* algo::tarjan applied to the store
Tarjan ==
    /\ fault = "none"
    /\ \E r \in {tarjan(nodes, edges)} :
           /\ fault' = r.fault
           /\ last' = [Call("tarjan") EXCEPT !.sccs = r.sccs, !.depth = r.depth, !.mp = r]
    /\ UNCHANGED <<nodes, edges, batches, sess>>

\* The stored edges from a node to itself.
SelfLoops(es) == {e \in Ixs(es) : es[e + 1].node[1] = es[e + 1].node[2]}

\* Stores of one payload built by add_node and add_edge, made smaller by
\* remove_edge of a self-loop and by batch removals of one edge, with tarjan
\* applied.
NextTarjan ==
    \/ Len(nodes) < MaxTarjanNodes /\ AddNode("a", MaxTarjanNodes + MaxTarjanEdges)
    \/ /\ Len(edges) < MaxTarjanEdges
       /\ \E from \in NodeIxs : \E to \in NodeIxs :
             AddEdge("x", from, to, MaxTarjanNodes + MaxTarjanEdges)
    \/ \E ix \in SelfLoops(edges) : RemoveEdge(ix)
    \/ \E ix \in EdgeIxs : RemoveNodesEdges(<<>>, <<ix>>, TRUE)
    \/ Tarjan

SpecTarjan == Init /\ [][NextTarjan]_vars

\* Sum of the lengths of the sequences of q.
RECURSIVE SumLen(_)
SumLen(q) == IF q = <<>> THEN 0 ELSE Len(Head(q)) + SumLen(Tail(q))

\* The groups that hold node n.
GroupsOf(sccs, n) == {g \in 1..Len(sccs) : n \in ToSet(sccs[g])}

\* Every node of ns is in exactly one group, once, and no group is empty.
Partitions(sccs, ns) ==
    /\ \A g \in 1..Len(sccs) : sccs[g] # <<>> /\ NoDup(sccs[g]) /\ ToSet(sccs[g]) \subseteq Ixs(ns)
    /\ \A n \in Ixs(ns) : Cardinality(GroupsOf(sccs, n)) = 1
    /\ SumLen(sccs) = Len(ns)

(***************************************************************************)
(* C14: the groups that tarjan returns partition the node set: every node  *)
(* index occurs in exactly one group, no group is empty, the group sizes   *)
(* sum to the number of nodes; on an empty store tarjan returns zero       *)
(* groups.                                                                 *)
(***************************************************************************)
C14_Partition ==
    last.op = "tarjan" =>
       /\ fault = "none" => Partitions(last.sccs, nodes)
       /\ nodes = <<>> => fault = "none" /\ last.sccs = <<>>

\* tarjan has returned two groups for three nodes.
C14_Witness ==
    /\ last.op = "tarjan" /\ fault = "none"
    /\ Len(nodes) = 3 /\ Len(edges) = 3
    /\ Len(last.sccs) = 2

\* The nodes that a directed path of stored edges leads to from a node of S.
RECURSIVE ReachSet(_, _)
ReachSet(es, S) ==
    LET T == S \cup {es[k].node[2] : k \in {j \in 1..Len(es) : es[j].node[1] \in S}}
    IN  IF T = S THEN S ELSE ReachSet(es, T)

Reaches(es, a, b) == b \in ReachSet(es, {a})

SameGroup(sccs, a, b) == \E g \in 1..Len(sccs) : a \in ToSet(sccs[g]) /\ b \in ToSet(sccs[g])

(***************************************************************************)
(* C15: two nodes are in the same group that tarjan returns if and only if *)
(* each is reachable from the other along the stored directed edges.       *)
(***************************************************************************)
C15_GroupsAreSccs ==
    (last.op = "tarjan" /\ fault = "none") =>
       \A a \in Ixs(nodes) : \A b \in Ixs(nodes) :
          SameGroup(last.sccs, a, b) <=> Reaches(edges, a, b) /\ Reaches(edges, b, a)

\* The position of the group of node n in the returned sequence.
GroupIx(sccs, n) == CHOOSE g \in 1..Len(sccs) : n \in ToSet(sccs[g])

(***************************************************************************)
(* C16: the groups are returned in reverse topological order: for every    *)
(* stored edge whose source and target lie in different groups, the group  *)
(* of the target comes earlier in the returned sequence than the group of  *)
(* the source.                                                             *)
(***************************************************************************)
C16_ReverseTopological ==
    (last.op = "tarjan" /\ fault = "none") =>
       \A e \in Ixs(edges) :
          LET gs == GroupIx(last.sccs, edges[e + 1].node[1])
              gt == GroupIx(last.sccs, edges[e + 1].node[2])
          IN  gs # gt => gt < gs

\* The groups as a set of sets of nodes.
Parts(sccs) == {ToSet(sccs[g]) : g \in 1..Len(sccs)}

\* Every stored edge at node n is an edge from n to n.
OnlySelfLoops(es, n) == (EdgesAt(es, 0, n) \cup EdgesAt(es, 1, n)) \subseteq SelfLoops(es)

\* The step adds an edge from a node to itself, or removes one.
SelfLoopStep ==
    /\ fault' = "none"
    /\ \/ last'.op = "add_edge" /\ last'.ok /\ last'.args[1] = last'.args[2]
       \/ last'.op = "remove_edge" /\ last'.ok /\ last'.args[1] \in SelfLoops(edges)

\* tarjan returns the same partition after the step as before it.
SamePartition ==
    LET r  == tarjan(nodes, edges)
        r2 == tarjan(nodes', edges')
    IN  r.fault = "none" => r2.fault = "none" /\ Parts(r2.sccs) = Parts(r.sccs)

\* tarjan has returned a group of its own for every node with self-loops only.
SelfLoopSingletons ==
    (last.op = "tarjan" /\ fault = "none") =>
       \A n \in Ixs(nodes) :
          OnlySelfLoops(edges, n) => \E g \in 1..Len(last.sccs) : last.sccs[g] = <<n>>

(***************************************************************************)
(* C17: self-loops never merge nodes: adding or removing an edge from a    *)
(* node to itself does not change the partition that tarjan returns, and   *)
(* a node whose only incident edges are self-loops is returned as a group  *)
(* of its own.                                                             *)
(***************************************************************************)
C17_SelfLoops ==
    /\ []SelfLoopSingletons
    /\ [][SelfLoopStep => SamePartition]_vars

\* The store holds n >= 1 nodes and exactly the n edges i -> (i + 1) mod n.
IsCycle(ns, es) ==
    /\ Len(ns) >= 1
    /\ Len(es) = Len(ns)
    /\ \A i \in Ixs(ns) :
          Cardinality({e \in Ixs(es) : es[e + 1].node = <<i, (i + 1) % Len(ns)>>}) = 1

(***************************************************************************)
(* C18: on a store whose edges form one directed cycle i -> (i + 1) mod n  *)
(* over its n >= 1 nodes, tarjan comes to an end and returns exactly one   *)
(* group, which holds all n nodes.                                         *)
(***************************************************************************)
C18_Cycle ==
    (last.op = "tarjan" /\ IsCycle(nodes, edges)) =>
       /\ fault = "none"
       /\ Len(last.sccs) = 1
       /\ ToSet(last.sccs[1]) = Ixs(nodes)
       /\ Len(last.sccs[1]) = Len(nodes)

(***************************************************************************)
(* Sessions (Graph::scope_mut, Context).  A session is opened on a store   *)
(* and lasts while its closure runs; the handles and mappings it issues    *)
(* carry its marker, the lifetime 'scope.  The store "g" is the one of     *)
(* nodes and edges; of a second store "h" only the number of nodes is      *)
(* kept (sess.other).  A handle records, besides marker and index, the     *)
(* store of the session that issued it and the payload of the element it   *)
(* was issued for (elem); payloads added through sessions are serial       *)
(* numbers, so elem names one element.  What the compiler refuses is a     *)
(* call that is not executed: it leaves only its record in last, with      *)
(* ok = FALSE.                                                             *)
(***************************************************************************)
\* sessions opened in one run
MaxScopes == 2
\* records, nodes and edges together, of the store "g" under sessions
MaxSession == 3
\* nodes of the store "h"
MaxOther == 1
\* writes to the index field of a handle in one run
MaxForged == 1

\* A marker that any other marker is accepted for.
SameScope_Any(a, b) == TRUE

\* crate::Invariant<'scope> is PhantomData<fn(&'a ()) -> &'a ()>, invariant in
\* 'a, and every closure of scope_mut is for<'scope>: a handle of marker a is
\* accepted where marker b is required only if they are the same.
SameScope(a, b) == a = b

NodeTag(scope, store, ix, elem) ==
    [kind |-> "node", scope |-> scope, store |-> store, ix |-> ix, elem |-> elem]
EdgeTag(scope, store, ix, elem) ==
    [kind |-> "edge", scope |-> scope, store |-> store, ix |-> ix, elem |-> elem]
\* a mapping over the nodes: ix is the number of its entries
ContextNodeMap(scope, store, len) ==
    [kind |-> "map", scope |-> scope, store |-> store, ix |-> len, elem |-> 0]

\* Context::exists_node_index / exists_edge_index
ctx_exists_node_index(ns, ix) == TRUE
ctx_exists_edge_index(es, ix) == TRUE

\* GraphUpdate::add_edge of a Context: its own existence test, then
\* add_edge_unchecked of the store
ctx_add_edge(ns, es, d, from, to) ==
    IF ctx_exists_node_index(ns, from) /\ ctx_exists_node_index(ns, to)
    THEN [ok |-> TRUE, r |-> add_edge_unchecked(ns, es, d, from, to)]
    ELSE [ok |-> FALSE, r |-> [nodes |-> ns, edges |-> es, fault |-> "none", ix |-> <<>>]]

\* Graph::node of a Context
ctx_node(ns, ix) ==
    IF ctx_exists_node_index(ns, ix) THEN [ok |-> TRUE, r |-> node_unchecked(ns, ix)]
    ELSE [ok |-> FALSE, r |-> NotFound]

TagsOf(kind) == {h \in sess.tags : h.kind = kind}
Sessions == 1..Len(sess.open)
\* the sessions opened on the store and still open
OpenOn(store) == {q \in Sessions : sess.open[q].store = store}
\* Session p can be called with &mut: it is exclusive, it is the innermost one
\* on its store, and remove_nodes_edges has not consumed it.
Usable(p) ==
    /\ p \in Sessions
    /\ sess.open[p].excl
    /\ ~sess.open[p].used
    /\ \A q \in OpenOn(sess.open[p].store) : q <= p
\* Session p can be called with &: every session opened after it on its store
\* holds a shared borrow only.
Readable(p) ==
    /\ p \in Sessions
    /\ ~sess.open[p].used
    /\ \A q \in OpenOn(sess.open[p].store) : q > p => ~sess.open[q].excl
\* Session p was opened on the Context of another session.
Nested(p) == \E q \in OpenOn(sess.open[p].store) : q < p
\* A mapping borrows its session: a call that takes the session by &mut or by
\* value ends the mappings of marker m.
DropMaps(T, m) == {h \in T : ~(h.kind = "map" /\ h.scope = m)}
\* the record of a call of session s (or of a mapping of its marker) with the
\* handles hs
CtxCall(op, m, store, hs, ok) ==
    [Call(op) EXCEPT !.scope = <<m, store>>, !.tags = hs, !.ok = ok,
                     !.args = [k \in 1..Len(hs) |-> hs[k].ix]]

\* Graph::scope_mut on the store, or on the Context of the session that is
\* open on it
ScopeMut(store) ==
    /\ fault = "none"
    /\ sess.fresh < MaxScopes
    /\ \A q \in OpenOn(store) : store = "g" /\ Usable(q) /\ ~Nested(q)
    /\ sess' = [sess EXCEPT
                  !.open = Append(@, [m |-> sess.fresh, store |-> store,
                                      used |-> FALSE, excl |-> TRUE]),
                  !.fresh = @ + 1,
                  !.tags = {h \in @ : ~(h.kind = "map" /\ h.store = store)}]
    /\ last' = CtxCall("scope_mut", sess.fresh, store, <<>>, TRUE)
    /\ UNCHANGED <<nodes, edges, fault, batches>>

\* Graph::scope on the store, or on the Context of a session open on it: a
\* shared borrow, which read-only sessions share and the innermost exclusive
\* session can lend.
Scope(store) ==
    /\ fault = "none"
    /\ sess.fresh < MaxScopes
    /\ \A q \in OpenOn(store) : ~sess.open[q].excl \/ (store = "g" /\ Usable(q))
    /\ sess' = [sess EXCEPT
                  !.open = Append(@, [m |-> sess.fresh, store |-> store,
                                      used |-> FALSE, excl |-> FALSE]),
                  !.fresh = @ + 1]
    /\ last' = CtxCall("scope", sess.fresh, store, <<>>, TRUE)
    /\ UNCHANGED <<nodes, edges, fault, batches>>

\* A value that never carries the marker.
MentionsScope_Never(h, m) == FALSE

\* The type of the value h names 'scope: NodeTag<'scope, I>, EdgeTag<'scope, I>
\* and ContextNodeMap<'scope, ..> all carry the marker of their session.
MentionsScope(h, m) == h.scope = m

\* The closure of the innermost session returns, handing out ret (nothing,
\* or one handle or mapping).  The closure is for<'scope> and its result type
\* R is chosen outside of it: a result that names 'scope is refused, and
\* what carries the marker ends with the closure.
ScopeEnd(ret) ==
    /\ fault = "none"
    /\ sess.open # <<>>
    /\ \E s \in {sess.open[Len(sess.open)]} :
          IF \E k \in 1..Len(ret) : MentionsScope(ret[k], s.m)
          THEN /\ last' = CtxCall("scope_end", s.m, s.store, ret, FALSE)
               /\ sess' = sess
          ELSE /\ sess' = [sess EXCEPT
                             !.open = SubSeq(@, 1, Len(@) - 1),
                             !.tags = {h \in @ : h.scope # s.m} \cup
                                         {ret[k] : k \in 1..Len(ret)}]
               /\ last' = CtxCall("scope_end", s.m, s.store, ret, TRUE)
    /\ UNCHANGED <<nodes, edges, fault, batches>>

\* Context::add_node
CtxAddNode(p) ==
    /\ fault = "none"
    /\ Usable(p)
    /\ \E s \in {sess.open[p]} :
          /\ IF s.store = "g"
             THEN /\ Len(nodes) + Len(edges) < MaxSession
                  /\ \E r \in {add_node(nodes, sess.serial)} :
                        /\ nodes' = r.nodes
                        /\ sess' = [sess EXCEPT
                                      !.tags = DropMaps(@, s.m) \cup
                                                  {NodeTag(s.m, "g", r.ix, sess.serial)},
                                      !.serial = @ + 1]
                        /\ last' = [CtxCall("ctx_add_node", s.m, s.store, <<>>, TRUE)
                                       EXCEPT !.rix = <<r.ix>>, !.data = <<sess.serial>>]
             ELSE /\ sess.other < MaxOther
                  /\ nodes' = nodes
                  /\ sess' = [sess EXCEPT
                                !.tags = DropMaps(@, s.m) \cup
                                            {NodeTag(s.m, "h", sess.other, sess.serial)},
                                !.serial = @ + 1,
                                !.other = @ + 1]
                  /\ last' = [CtxCall("ctx_add_node", s.m, s.store, <<>>, TRUE)
                                 EXCEPT !.rix = <<sess.other>>, !.data = <<sess.serial>>]
    /\ UNCHANGED <<edges, fault, batches>>

\* GraphUpdate::add_edge on a Context of the store "g"
CtxAddEdge(p, hf, ht) ==
    /\ fault = "none"
    /\ Usable(p)
    /\ \E s \in {sess.open[p]} :
          /\ s.store = "g"
          /\ IF SameScope(hf.scope, s.m) /\ SameScope(ht.scope, s.m)
             THEN /\ Len(nodes) + Len(edges) < MaxSession
                  /\ \E c \in {ctx_add_edge(nodes, edges, sess.serial, hf.ix, ht.ix)} :
                        /\ nodes' = c.r.nodes
                        /\ edges' = c.r.edges
                        /\ fault' = c.r.fault
                        /\ sess' = [sess EXCEPT
                                      !.tags = DropMaps(@, s.m) \cup
                                          {EdgeTag(s.m, "g", c.r.ix[k], sess.serial) :
                                              k \in 1..Len(c.r.ix)},
                                      !.serial = @ + 1]
                        /\ last' = [CtxCall("ctx_add_edge", s.m, s.store, <<hf, ht>>, TRUE)
                                       EXCEPT !.rix = c.r.ix, !.data = <<sess.serial>>]
             ELSE /\ last' = CtxCall("ctx_add_edge", s.m, s.store, <<hf, ht>>, FALSE)
                  /\ UNCHANGED <<nodes, edges, fault, sess>>
    /\ UNCHANGED batches

\* Graph::node on a Context
CtxNode(p, h) ==
    /\ fault = "none"
    /\ Readable(p)
    /\ \E s \in {sess.open[p]} :
          IF SameScope(h.scope, s.m)
          THEN IF s.store = "g"
               THEN \E c \in {ctx_node(nodes, h.ix)} :
                       /\ fault' = c.r.fault
                       /\ last' = [CtxCall("ctx_node", s.m, s.store, <<h>>, TRUE)
                                      EXCEPT !.cn = c.r.ret]
               ELSE /\ fault' = IF h.ix < sess.other THEN "none" ELSE "oob"
                    /\ last' = CtxCall("ctx_node", s.m, s.store, <<h>>, TRUE)
          ELSE /\ last' = CtxCall("ctx_node", s.m, s.store, <<h>>, FALSE)
               /\ fault' = fault
    /\ UNCHANGED <<nodes, edges, batches, sess>>

\* the indices of a list of handles
TagIxs(hs) == [k \in 1..Len(hs) |-> hs[k].ix]

\* Context::remove_nodes_edges, for a session opened on the store itself: the
\* session is consumed.  An index past the end is one that
\* remove_nodes_edges_unchecked reads without a check.
CtxRemoveNodesEdges(p, hn, he, wraps) ==
    /\ fault = "none"
    /\ Usable(p)
    /\ ~Nested(p)
    /\ batches < MaxBatches
    /\ \E s \in {sess.open[p]} :
          /\ s.store = "g"
          /\ IF \A k \in 1..Len(hn \o he) : SameScope((hn \o he)[k].scope, s.m)
             THEN /\ batches' = batches + 1
                  /\ sess' = [sess EXCEPT !.open[p].used = TRUE,
                                          !.tags = DropMaps(@, s.m)]
                  /\ IF \/ \E k \in 1..Len(hn) : hn[k].ix >= Len(nodes)
                        \/ \E k \in 1..Len(he) : he[k].ix >= Len(edges)
                     THEN /\ fault' = "oob"
                          /\ last' = CtxCall("ctx_remove_nodes_edges", s.m, s.store,
                                             hn \o he, TRUE)
                          /\ UNCHANGED <<nodes, edges>>
                     ELSE \E r \in {remove_nodes_edges_unchecked(
                                       nodes, edges, TagIxs(hn), TagIxs(he), wraps)} :
                             /\ nodes' = r.nodes
                             /\ edges' = r.edges
                             /\ fault' = r.fault
                             /\ last' = [CtxCall("ctx_remove_nodes_edges", s.m, s.store,
                                                 hn \o he, TRUE)
                                            EXCEPT !.cn = r.cn, !.ce = r.ce]
             ELSE /\ last' = CtxCall("ctx_remove_nodes_edges", s.m, s.store,
                                     hn \o he, FALSE)
                  /\ UNCHANGED <<nodes, edges, fault, batches, sess>>

\* Context::node_indices (fully consumed) on a session of the store "g": a
\* handle of the session's marker for every index of the store
CtxNodeIndices(p) ==
    /\ fault = "none"
    /\ Readable(p)
    /\ \E s \in {sess.open[p]} :
          /\ s.store = "g"
          /\ nodes # <<>>
          /\ \E ixs \in {node_indices(nodes)} :
                /\ sess' = [sess EXCEPT
                              !.tags = @ \cup
                                 {NodeTag(s.m, "g", ixs[k], nodes[ixs[k] + 1].data) :
                                     k \in 1..Len(ixs)}]
                /\ last' = [CtxCall("ctx_node_indices", s.m, s.store, <<>>, TRUE)
                               EXCEPT !.rix = ixs]
    /\ UNCHANGED <<nodes, edges, fault, batches>>

\* Context::init_node_map
CtxInitNodeMap(p) ==
    /\ fault = "none"
    /\ Readable(p)
    /\ \E s \in {sess.open[p]} :
          \E mp \in {ContextNodeMap(s.m, s.store,
                                    IF s.store = "g" THEN Len(nodes) ELSE sess.other)} :
             /\ mp \notin sess.tags
             /\ sess' = [sess EXCEPT !.tags = @ \cup {mp}]
             /\ last' = CtxCall("ctx_init_node_map", s.m, s.store, <<>>, TRUE)
    /\ UNCHANGED <<nodes, edges, fault, batches>>

\* Index<NodeTag> of a ContextNodeMap: get_unchecked on the entries
MapIndex(mp, h) ==
    /\ fault = "none"
    /\ IF SameScope(h.scope, mp.scope)
       THEN /\ fault' = IF h.ix < mp.ix THEN "none" ELSE "oob"
            /\ last' = CtxCall("map_index", mp.scope, mp.store, <<h>>, TRUE)
       ELSE /\ fault' = fault
            /\ last' = CtxCall("map_index", mp.scope, mp.store, <<h>>, FALSE)
    /\ UNCHANGED <<nodes, edges, batches, sess>>

\* The payload of the element that index ix names for a handle like h, if
\* there is one.
ElemAt(h, ix) ==
    IF h.store = "g" /\ h.kind = "node" /\ ix < Len(nodes) THEN nodes[ix + 1].data
    ELSE IF h.store = "g" /\ h.kind = "edge" /\ ix < Len(edges) THEN edges[ix + 1].data
    ELSE h.elem

\* NodeTag and EdgeTag declare their index as a public field: the program
\* assigns to the index of handle h the index read from a handle src of
\* another session.  The handle then names the element at that index of its
\* store, if there is one.
SetIndex(h, src) ==
    /\ fault = "none"
    /\ sess.forged < MaxForged
    /\ h.kind = src.kind
    /\ h.scope # src.scope
    /\ h.ix # src.ix
    /\ sess' = [sess EXCEPT
                  !.tags = @ \cup {[h EXCEPT !.ix = src.ix, !.elem = ElemAt(h, src.ix)]},
                  !.forged = @ + 1]
    /\ last' = [Call("set_index") EXCEPT !.tags = <<h, src>>]
    /\ UNCHANGED <<nodes, edges, fault, batches>>

\* handle lists of a batch removal: none or one of each kind
NodeTagLists == {<<>>} \cup {<<h>> : h \in TagsOf("node")}
EdgeTagLists == {<<>>} \cup {<<h>> : h \in TagsOf("edge")}

NextSession ==
    \/ \E store \in {"g", "h"} : ScopeMut(store)
    \/ \E store \in {"g", "h"} : Scope(store)
    \/ \E ret \in {<<>>} \cup {<<h>> : h \in sess.tags} : ScopeEnd(ret)
    \/ \E p \in Sessions : CtxAddNode(p)
    \/ \E p \in Sessions : \E hf \in TagsOf("node") : \E ht \in TagsOf("node") :
          CtxAddEdge(p, hf, ht)
    \/ \E p \in Sessions : \E h \in TagsOf("node") : CtxNode(p, h)
    \/ \E p \in Sessions : \E hn \in NodeTagLists : \E he \in EdgeTagLists :
          \E wraps \in (IF Len(nodes) = 0 \/ Len(edges) = 0 THEN BOOLEAN ELSE {TRUE}) :
             CtxRemoveNodesEdges(p, hn, he, wraps)
    \/ \E p \in Sessions : CtxNodeIndices(p)
    \/ \E p \in Sessions : CtxInitNodeMap(p)
    \/ \E mp \in TagsOf("map") : \E h \in TagsOf("node") : MapIndex(mp, h)
    \/ \E h \in TagsOf("node") \cup TagsOf("edge") :
          \E src \in TagsOf("node") \cup TagsOf("edge") : SetIndex(h, src)

SpecSession == Init /\ [][NextSession]_vars

\* The session of marker m is open and remove_nodes_edges has not consumed it.
CanBeUsed(m) == \E q \in Sessions : sess.open[q].m = m /\ ~sess.open[q].used

\* Handle h has an index below the count of its store and, in the store "g",
\* the element at that index is the one it was issued for.
ValidTag(h) ==
    \/ h.kind = "node" /\ h.store = "g" /\ h.ix < Len(nodes) /\ nodes[h.ix + 1].data = h.elem
    \/ h.kind = "edge" /\ h.store = "g" /\ h.ix < Len(edges) /\ edges[h.ix + 1].data = h.elem
    \/ h.kind = "node" /\ h.store = "h" /\ h.ix < sess.other

(***************************************************************************)
(* C19: in every state in which a session can still be used, each node     *)
(* handle of its marker has an index below the current node count and      *)
(* each edge handle an index below the current edge count, and the element *)
(* at that index is the one the handle was issued for.                     *)
(***************************************************************************)
C19_HandlesValid ==
    fault = "none" =>
       \A h \in TagsOf("node") \cup TagsOf("edge") : CanBeUsed(h.scope) => ValidTag(h)

\* the operations of a session, or of a mapping, that consume handles
ConsumingOps == {"ctx_add_edge", "ctx_node", "ctx_remove_nodes_edges", "map_index"}

\* Every handle of the call recorded in c was issued by the session the call
\* is made on: same marker, same store.
OwnTags(c) ==
    \A k \in 1..Len(c.tags) :
       c.tags[k].scope = c.scope[1] /\ c.tags[k].store = c.scope[2]

(***************************************************************************)
(* C20: an operation that consumes handles is executed only if every       *)
(* handle it is given carries the marker of the session (or mapping) it is *)
(* called on, and so was issued on the same store by that same session; a  *)
(* call with a handle of a session on another store, or of another session *)
(* on the same store, is rejected and changes neither the stores nor the   *)
(* sessions.                                                               *)
(***************************************************************************)
C20_MarkerMatch ==
    [][last'.op \in ConsumingOps =>
          IF OwnTags(last')
          THEN last'.ok
          ELSE ~last'.ok /\ UNCHANGED <<nodes, edges, fault, batches, sess>>]_vars

\* A call on a session was refused for a handle that another session on the
\* same store had issued, with both sessions open.
C20_Witness ==
    /\ last.op \in ConsumingOps
    /\ ~last.ok
    /\ \E k \in 1..Len(last.tags) :
          /\ last.tags[k].store = last.scope[2]
          /\ last.tags[k].scope # last.scope[1]
          /\ CanBeUsed(last.tags[k].scope)
    /\ CanBeUsed(last.scope[1])

\* A call on a session was refused for a handle issued on another store.
C20_OtherStore ==
    /\ last.op \in ConsumingOps
    /\ ~last.ok
    /\ \E k \in 1..Len(last.tags) : last.tags[k].store # last.scope[2]

\* The session that issued h is still open.
Alive(h) == \E q \in Sessions : sess.open[q].m = h.scope

(***************************************************************************)
(* C21: no handle and no mapping outlives its session: every handle and    *)
(* mapping in existence carries the marker of a session that is still      *)
(* open, and a closure whose result is a handle or mapping of its own      *)
(* session is refused, leaving the session open and everything unchanged.  *)
(***************************************************************************)
C21_NoEscape ==
    /\ [](\A h \in sess.tags : Alive(h))
    /\ [][last'.op = "scope_end" =>
             IF \E k \in 1..Len(last'.tags) : last'.tags[k].scope = last'.scope[1]
             THEN ~last'.ok /\ UNCHANGED <<nodes, edges, fault, batches, sess>>
             ELSE /\ last'.ok
                  /\ \A q \in 1..Len(sess'.open) : sess'.open[q].m # last'.scope[1]
                  /\ \A h \in sess'.tags : h.scope # last'.scope[1]]_vars

\* A session that had issued node handles and an edge handle has ended, and
\* nothing of its marker is left.
C21_Witness ==
    /\ last.op = "scope_end"
    /\ last.ok
    /\ sess.serial >= 3
    /\ Len(edges) >= 1
    /\ sess.open = <<>>
    /\ sess.tags = {}

\* A closure that returns a handle of its own session was refused.
C21_Refused ==
    /\ last.op = "scope_end"
    /\ ~last.ok
    /\ \E k \in 1..Len(last.tags) : last.tags[k].scope = last.scope[1]

\* the exclusive, and the read-only, sessions that are open on the store
Exclusive(store) == {q \in OpenOn(store) : sess.open[q].excl /\ ~sess.open[q].used}
ReadOnly(store) == {q \in OpenOn(store) : ~sess.open[q].excl}

(***************************************************************************)
(* C22: in every state each store has either at most one exclusive         *)
(* session open and no read-only session, or read-only sessions only; two  *)
(* exclusive sessions are never open on the same store at the same time.   *)
(***************************************************************************)
C22_OneWriterOrReaders ==
    \A store \in {"g", "h"} :
       \/ Cardinality(Exclusive(store)) <= 1 /\ ReadOnly(store) = {}
       \/ Exclusive(store) = {}

\* the session of marker m, which is open
SessionOf(m) == CHOOSE q \in Sessions : sess.open[q].m = m

\* The call recorded in c was made on an exclusive session that had been
\* opened inside another session on the same store, and added a node or an
\* edge.
NestedAdd(c) ==
    /\ c.op \in {"ctx_add_node", "ctx_add_edge"}
    /\ c.ok
    /\ \E q \in Sessions : sess.open[q].m = c.scope[1] /\ Nested(q)

\* the handles of the sessions that enclose the session of marker m on its
\* store
OuterTags(m) ==
    {h \in TagsOf("node") \cup TagsOf("edge") :
        \E q \in Sessions : /\ sess.open[q].m = h.scope
                            /\ sess.open[q].store = sess.open[SessionOf(m)].store
                            /\ q < SessionOf(m)}

(***************************************************************************)
(* C23: an addition made by an exclusive session nested inside another     *)
(* session on the same store leaves every handle of the outer session      *)
(* that denoted an element denoting the same element with the same         *)
(* payload, and the end of the inner session leaves the store as it is:    *)
(* after the inner session has ended the outer handles refer to what they  *)
(* referred to before the nesting.                                         *)
(***************************************************************************)
C23_NestedAddKeepsOuter ==
    [][/\ NestedAdd(last') /\ fault' = "none" =>
             \A h \in OuterTags(last'.scope[1]) :
                /\ h \in sess'.tags
                /\ ValidTag(h) => ValidTag(h)'
       /\ last'.op = "scope_end" =>
             /\ UNCHANGED <<nodes, edges, fault>>
             /\ \A h \in sess.tags : h.scope # last'.scope[1] => h \in sess'.tags]_vars

\* An inner session that added a node and an edge has ended, and the handles
\* the outer session had issued before are all valid.
C23_Witness ==
    /\ last.op = "scope_end"
    /\ last.ok
    /\ last.scope[2] = "g"
    /\ Len(sess.open) = 1
    /\ sess.open[1].store = "g"
    /\ sess.open[1].excl
    /\ Len(nodes) = 2
    /\ Len(edges) = 1
    /\ sess.tags = {NodeTag(sess.open[1].m, "g", 0, nodes[1].data)}

(***************************************************************************)
(* Mappings.  VecGraph builds a mapping as a vector of values, one per     *)
(* record in index order; a session over a borrowed store goes through the *)
(* provided method of Graph, which fills a hash map from node_pairs.  The  *)
(* initializer f and the transformer g are the caller's closures, drawn    *)
(* from InitFns and MapFns.  last.mp is the mapping built last, last.calls *)
(* the calls of f in order, last.steps the number of rebuilds.             *)
(***************************************************************************)
\* records of the store under mappings
MaxMap == 3
\* rebuilds of one mapping
MaxRebuild == 2

InitFns == {"pair", "ix", "data"}
MapFns == {"wrap", "zero"}
\* the caller's initializer f(ix, payload)
ApplyInit(f, ix, d) == CASE f = "pair" -> <<ix, d>> [] f = "ix" -> ix [] OTHER -> d
\* the caller's transformer g(value)
ApplyMap(g, v) == IF g = "wrap" THEN <<"w", v>> ELSE 0

\* An initialization that leaves out the last record.
init_map_Short(s, f) ==
    [data |-> [k \in 1..(Len(s) - 1) |-> ApplyInit(f, k - 1, s[k].data)],
     calls |-> [k \in 1..(Len(s) - 1) |-> <<k - 1, s[k].data>>]]

\* VecGraph::init_node_map and init_edge_map: enumerate the records, call f on
\* each, collect
init_map(s, f) ==
    [data |-> [k \in 1..Len(s) |-> ApplyInit(f, k - 1, s[k].data)],
     calls |-> [k \in 1..Len(s) |-> <<k - 1, s[k].data>>]]
init_node_map(ns, f) == init_map(ns, f)
init_edge_map(es, f) == init_map(es, f)

\* Graph::node_pairs and edge_pairs of the records s with the indices ixs
pairs(s, ixs) == [k \in 1..Len(ixs) |-> <<ixs[k], s[ixs[k] + 1].data>>]

\* Graph::init_node_map and init_edge_map as provided: a hash map with one
\* insertion per pair
default_init_map(s, ixs, f) ==
    [data |-> [ix \in ToSet(ixs) |-> ApplyInit(f, ix, s[ix + 1].data)],
     calls |-> pairs(s, ixs)]

\* Mapping::map of VecNodeMap / VecEdgeMap (a sequence) and of the hash maps
\* (a function of the index)
map(m, g) == [k \in DOMAIN m |-> ApplyMap(g, m[k])]

\* init_node_map on the store (via = "vec") or through a session over the
\* borrowed store (via = "default")
InitNodeMap(f, via) ==
    /\ fault = "none"
    /\ \E r \in {IF via = "vec" THEN init_node_map(nodes, f)
                 ELSE default_init_map(nodes, node_indices(nodes), f)} :
          last' = [Call("init_node_map") EXCEPT !.data = <<f>>, !.args2 = <<via>>,
                                                 !.mp = r.data, !.calls = r.calls]
    /\ UNCHANGED <<nodes, edges, fault, batches, sess>>

\* init_edge_map, likewise
InitEdgeMap(f, via) ==
    /\ fault = "none"
    /\ \E r \in {IF via = "vec" THEN init_edge_map(edges, f)
                 ELSE default_init_map(edges, edge_indices(edges), f)} :
          last' = [Call("init_edge_map") EXCEPT !.data = <<f>>, !.args2 = <<via>>,
                                                 !.mp = r.data, !.calls = r.calls]
    /\ UNCHANGED <<nodes, edges, fault, batches, sess>>

\* Mapping::map on the mapping built last: the mapping borrows the store, so
\* nothing has changed the store since
MapMap(g) ==
    /\ fault = "none"
    /\ last.op \in {"init_node_map", "init_edge_map", "map"}
    /\ last.steps < MaxRebuild
    /\ last' = [Call("map") EXCEPT !.data = <<g>>, !.args2 = last.args2,
                                    !.mp = map(last.mp, g), !.steps = last.steps + 1]
    /\ UNCHANGED <<nodes, edges, fault, batches, sess>>

NextMap ==
    \/ \E d \in NodeData : AddNode(d, MaxMap)
    \/ \E d \in EdgeData : \E from \in NodeIxs : \E to \in NodeIxs : AddEdge(d, from, to, MaxMap)
    \/ \E ix \in NodeIxs : RemoveNode(ix)
    \/ \E f \in InitFns : \E via \in {"vec", "default"} : InitNodeMap(f, via)
    \/ \E f \in InitFns : \E via \in {"vec", "default"} : InitEdgeMap(f, via)
    \/ \E g \in MapFns : MapMap(g)

SpecMap == Init /\ [][NextMap]_vars

\* the value of mapping c.mp at index ix
ValueAt(c, ix) == IF c.args2 = <<"vec">> THEN c.mp[ix + 1] ELSE c.mp[ix]
\* the indices mapping c.mp has a value for
KeysOf(c) == IF c.args2 = <<"vec">> THEN {k - 1 : k \in DOMAIN c.mp} ELSE DOMAIN c.mp

\* Mapping c was initialized over the records s: f was called once for each
\* index with its payload, and the value at each index is f of them.
InitializedOver(c, s) ==
    /\ KeysOf(c) = Ixs(s)
    /\ Cardinality(DOMAIN c.mp) = Len(s)
    /\ Len(c.calls) = Len(s)
    /\ \A ix \in Ixs(s) :
          /\ Count(c.calls, <<ix, s[ix + 1].data>>) = 1
          /\ ValueAt(c, ix) = ApplyInit(c.data[1], ix, s[ix + 1].data)

(***************************************************************************)
(* C24: init_node_map(f) calls f exactly once for each current node and    *)
(* returns a mapping with exactly len_nodes entries whose value at each    *)
(* index ix is f(ix, payload of ix); init_edge_map(f) does the same over   *)
(* the edges; map(g) keeps the keys and turns the value at every index     *)
(* into g of the old value there.                                          *)
(***************************************************************************)
C24_InitAndMap ==
    /\ [](last.op = "init_node_map" => InitializedOver(last, nodes))
    /\ [](last.op = "init_edge_map" => InitializedOver(last, edges))
    /\ [][last'.op = "map" =>
             /\ KeysOf(last') = KeysOf(last)
             /\ \A ix \in KeysOf(last) :
                   ValueAt(last', ix) = ApplyMap(last'.data[1], ValueAt(last, ix))]_vars

\* A mapping over three nodes with different payloads was rebuilt twice.
C24_Witness ==
    /\ last.op = "map"
    /\ last.steps = 2
    /\ Len(nodes) = 3
    /\ Cardinality(DOMAIN last.mp) = 3
    /\ nodes[1].data # nodes[2].data

(***************************************************************************)
(* drain and clear                                                         *)
(***************************************************************************)
\* records of the store under drain and clear
MaxDrain == 3

\* GraphRemove::drain: every node index and every edge index, collected, go to
\* remove_nodes_edges_unchecked
drain(ns, es, wraps) ==
    remove_nodes_edges_unchecked(ns, es, node_indices(ns), edge_indices(es), wraps)

\* GraphRemove::clear: drain, the payloads dropped
clear(ns, es, wraps) ==
    Bind(drain(ns, es, wraps), LAMBDA r : [nodes |-> r.nodes, edges |-> r.edges,
                                          fault |-> r.fault])

\* the builds that can run the batch removal on the store: with and without
\* overflow checks when one of the flag arrays is empty
Builds == IF Len(nodes) = 0 \/ Len(edges) = 0 THEN BOOLEAN ELSE {TRUE}

Drain(wraps) ==
    /\ fault = "none"
    /\ \E r \in {drain(nodes, edges, wraps)} :
          /\ nodes' = r.nodes
          /\ edges' = r.edges
          /\ fault' = r.fault
          /\ last' = [Call("drain") EXCEPT !.cn = r.cn, !.ce = r.ce,
                                           !.nr = r.nr, !.er = r.er]
    /\ UNCHANGED <<batches, sess>>

Clear(wraps) ==
    /\ fault = "none"
    /\ \E r \in {clear(nodes, edges, wraps)} :
          /\ nodes' = r.nodes
          /\ edges' = r.edges
          /\ fault' = r.fault
          /\ last' = Call("clear")
    /\ UNCHANGED <<batches, sess>>

NextDrain ==
    \/ \E d \in NodeData : AddNode(d, MaxDrain)
    \/ \E d \in EdgeData : \E from \in NodeIxs : \E to \in NodeIxs : AddEdge(d, from, to, MaxDrain)
    \/ \E ix \in EdgeIxs : RemoveEdge(ix)
    \/ \E ix \in NodeIxs : RemoveNode(ix)
    \/ \E dn \in Lists(Len(nodes), MaxDel) : \E de \in Lists(Len(edges), MaxDel) :
          \E wraps \in Builds : RemoveNodesEdges(dn, de, wraps)
    \/ \E wraps \in Builds : Drain(wraps)
    \/ \E wraps \in Builds : Clear(wraps)

SpecDrain == Init /\ [][NextDrain]_vars

\* the payloads of the records s, in index order
Payloads(s) == [k \in 1..Len(s) |-> s[k].data]

\* What a step that is a drain or a clear has done: ended normally, emptied
\* the store and, for drain, returned the payloads the store held.
DrainClearOk ==
    /\ last'.op = "drain" =>
          /\ fault' = "none"
          /\ nodes' = <<>> /\ edges' = <<>>
          /\ SameBag(last'.cn, Payloads(nodes))
          /\ SameBag(last'.ce, Payloads(edges))
    /\ last'.op = "clear" =>
          /\ fault' = "none"
          /\ nodes' = <<>> /\ edges' = <<>>

(***************************************************************************)
(* C25: drain, on any store the operations reach, returns every node       *)
(* payload exactly once and every edge payload exactly once and leaves the *)
(* store empty; clear leaves the store in the same empty state.            *)
(***************************************************************************)
C25_DrainClear == [][DrainClearOk]_vars

\* drain and clear in a build where the subtraction on an empty flag array
\* wraps, on a store that no batch removal has touched
C25_DrainClearWrapping ==
    [][(batches = 0 /\ fault' # "overflow") => DrainClearOk]_vars

(***************************************************************************)
(* append.  The graph appended is a second VecGraph, built by add_node and *)
(* add_edge; last.other records it as it was before the call.              *)
(***************************************************************************)
\* records of the store appended to
MaxAppend == 3
\* nodes, and edges, of the store appended
MaxOtherNodes == 2
MaxOtherEdges == 2

OtherNodeData == {"c", "d"}

\* the stores built from ns, es by at most n calls of add_edge
RECURSIVE WithEdges(_, _, _)
WithEdges(ns, es, n) ==
    IF n = 0 THEN {[nodes |-> ns, edges |-> es]}
    ELSE {[nodes |-> ns, edges |-> es]} \cup
         UNION {WithEdges(r.nodes, r.edges, n - 1) :
                   r \in {add_edge_unchecked(ns, es, d, from, to) :
                             d \in EdgeData, from \in Ixs(ns), to \in Ixs(ns)}}

\* the stores built by at most n calls of add_node
RECURSIVE WithNodes(_, _)
WithNodes(ns, n) ==
    IF n = 0 THEN {ns}
    ELSE {ns} \cup UNION {WithNodes(add_node(ns, d).nodes, n - 1) : d \in OtherNodeData}

Others == UNION {WithEdges(ns, <<>>, MaxOtherEdges) : ns \in WithNodes(<<>>, MaxOtherNodes)}

\* `for (old_node_ix, node) in node_indices.into_iter().zip(nodes)`: add_node,
\* and the old index entered in node_mapping
RECURSIVE AppendNodes(_, _, _, _, _)
AppendNodes(ns, ixs, payloads, node_mapping, k) ==
    IF k > Len(ixs) \/ k > Len(payloads) THEN [nodes |-> ns, node_mapping |-> node_mapping]
    ELSE Bind(add_node(ns, payloads[k]), LAMBDA r :
              AppendNodes(r.nodes, ixs, payloads,
                          [o \in DOMAIN node_mapping \cup {ixs[k]} |->
                              IF o = ixs[k] THEN r.ix ELSE node_mapping[o]],
                          k + 1))

\* `for ((_, endpoints), edge) in edge_data.into_iter().zip(edges)`:
\* add_edge_unchecked between the mapped endpoints; an endpoint without an
\* entry in node_mapping panics
RECURSIVE AppendEdges(_, _, _, _, _, _)
AppendEdges(ns, es, edge_data, payloads, node_mapping, k) ==
    IF k > Len(edge_data) \/ k > Len(payloads)
    THEN [nodes |-> ns, edges |-> es, fault |-> "none"]
    ELSE IF \E d \in 1..2 : edge_data[k][2][d] \notin DOMAIN node_mapping
    THEN [nodes |-> ns, edges |-> es, fault |-> "panic"]
    ELSE Bind(add_edge_unchecked(ns, es, payloads[k],
                                 node_mapping[edge_data[k][2][1]],
                                 node_mapping[edge_data[k][2][2]]), LAMBDA r :
              IF r.fault # "none" THEN [nodes |-> r.nodes, edges |-> r.edges, fault |-> r.fault]
              ELSE AppendEdges(r.nodes, r.edges, edge_data, payloads, node_mapping, k + 1))

\* GraphUpdate::append of the store (ons, oes) to the store (ns, es)
append(ns, es, ons, oes, wraps) ==
    Bind([k \in 1..Len(oes) |->
             <<edge_indices(oes)[k], endpoints_unchecked(oes, edge_indices(oes)[k]).ret>>],
         LAMBDA edge_data :
    Bind(drain(ons, oes, wraps), LAMBDA dr :
    IF dr.fault # "none" THEN [nodes |-> ns, edges |-> es, fault |-> dr.fault]
    ELSE
    Bind(AppendNodes(ns, node_indices(ons), dr.cn, <<>>, 1), LAMBDA an :
         AppendEdges(an.nodes, es, edge_data, dr.ce, an.node_mapping, 1))))

AppendGraph(other, wraps) ==
    /\ fault = "none"
    /\ Len(nodes) + Len(edges) < MaxAppend
    /\ \E r \in {append(nodes, edges, other.nodes, other.edges, wraps)} :
          /\ nodes' = r.nodes
          /\ edges' = r.edges
          /\ fault' = r.fault
          /\ last' = [Call("append") EXCEPT !.other = other]
    /\ UNCHANGED <<batches, sess>>

NextAppend ==
    \/ \E d \in NodeData : AddNode(d, MaxAppend)
    \/ \E d \in EdgeData : \E from \in NodeIxs : \E to \in NodeIxs :
          AddEdge(d, from, to, MaxAppend)
    \/ \E ix \in NodeIxs : RemoveNode(ix)
    \/ \E other \in Others :
          \E wraps \in (IF other.nodes = <<>> \/ other.edges = <<>> THEN BOOLEAN ELSE {TRUE}) :
             AppendGraph(other, wraps)

SpecAppend == Init /\ [][NextAppend]_vars

\* What a step that is an append of the store o has done.
AppendOk(o) ==
    /\ fault' = "none"
    /\ Len(nodes') = Len(nodes) + Len(o.nodes)
    /\ Len(edges') = Len(edges) + Len(o.edges)
    /\ \A n \in Ixs(nodes) :
          /\ nodes'[n + 1].data = nodes[n + 1].data
          /\ impl_get_edges(nodes', edges', 0, n) = impl_get_edges(nodes, edges, 0, n)
          /\ impl_get_edges(nodes', edges', 1, n) = impl_get_edges(nodes, edges, 1, n)
    /\ \A e \in Ixs(edges) :
          /\ edges'[e + 1].data = edges[e + 1].data
          /\ edges'[e + 1].node = edges[e + 1].node
    /\ \E f \in [Ixs(o.edges) -> Ixs(edges') \ Ixs(edges)] :
          /\ \A a, b \in Ixs(o.edges) : f[a] = f[b] => a = b
          /\ \A e \in Ixs(o.edges) :
                /\ edges'[f[e] + 1].data = o.edges[e + 1].data
                /\ \A d \in 1..2 :
                      /\ edges'[f[e] + 1].node[d] \in Ixs(nodes') \ Ixs(nodes)
                      /\ nodes'[edges'[f[e] + 1].node[d] + 1].data =
                            o.nodes[o.edges[e + 1].node[d] + 1].data

(***************************************************************************)
(* C26: after g1.append(g2) the node count and the edge count of g1 are    *)
(* the sums of the counts before, the elements g1 had keep their indices,  *)
(* payloads and adjacency, and every edge of g2 is in g1 with its payload, *)
(* between the added nodes that carry the payloads of its source and its   *)
(* target in g2.                                                           *)
(***************************************************************************)
C26_Append == [][last'.op = "append" => AppendOk(last'.other)]_vars

\* append in a build where the subtraction on an empty flag array wraps
C26_AppendWrapping ==
    [][(last'.op = "append" /\ fault' # "overflow") => AppendOk(last'.other)]_vars

(***************************************************************************)
(* remove_edges_with and clear_edges.  Both collect edge indices up front  *)
(* and then call remove_edge on each collected index that still exists;    *)
(* the predicate f is the caller's closure, drawn from EdgePreds.  The     *)
(* caller's loop around them is part of the model: last.steps counts the   *)
(* calls of one loop, last.ce holds the payloads the loop got back.        *)
(***************************************************************************)
\* records of the store under remove_edges_with and clear_edges
MaxWith == 4

EdgePreds == {"isx", "isy", "any", "never"}
\* the caller's predicate f(payload)
Sat(f, d) == CASE f = "isx" -> d = "x" [] f = "isy" -> d = "y" [] f = "any" -> TRUE
                  [] OTHER -> FALSE

\* `if self.exists_edge_index(ix) { self.remove_edge(ix) }` for each collected
\* index in turn
RECURSIVE remove_listed(_, _, _, _)
remove_listed(ns, es, ixs, ret) ==
    IF ixs = <<>> THEN [nodes |-> ns, edges |-> es, fault |-> "none", ret |-> ret]
    ELSE IF ~exists_edge_index(es, Head(ixs)) THEN remove_listed(ns, es, Tail(ixs), ret)
    ELSE Bind(remove_edge(ns, es, Head(ixs)), LAMBDA c :
              IF c.r.fault # "none"
              THEN [nodes |-> c.r.nodes, edges |-> c.r.edges, fault |-> c.r.fault, ret |-> ret]
              ELSE remove_listed(c.r.nodes, c.r.edges, Tail(ixs), ret \o c.r.ret))

\* GraphRemoveEdge::remove_edges_with, the returned iterator fully consumed
remove_edges_with(ns, es, f) ==
    remove_listed(ns, es,
                  SelectSeq(edge_indices(es), LAMBDA ix : Sat(f, edge_unchecked(es, ix).ret[1])),
                  <<>>)

\* GraphRemoveEdge::clear_edges
clear_edges(ns, es) == remove_listed(ns, es, edge_indices(es), <<>>)

\* `loop { let removed = g.remove_edges_with(f).collect(); if removed.is_empty()
\* { break } }`: a loop that has not ended after fuel passes never ends
RECURSIVE RepeatRemoveEdgesWith(_, _, _, _, _, _)
RepeatRemoveEdgesWith(ns, es, f, ret, passes, fuel) ==
    IF fuel = 0 THEN [nodes |-> ns, edges |-> es, fault |-> "hang", ret |-> ret,
                      steps |-> passes]
    ELSE Bind(remove_edges_with(ns, es, f), LAMBDA r :
              IF r.fault # "none" \/ r.ret = <<>>
              THEN [nodes |-> r.nodes, edges |-> r.edges, fault |-> r.fault, ret |-> ret,
                    steps |-> passes + 1]
              ELSE RepeatRemoveEdgesWith(r.nodes, r.edges, f, ret \o r.ret, passes + 1,
                                         fuel - 1))

\* `while g.len_edges() > 0 { g.clear_edges() }`
RECURSIVE RepeatClearEdges(_, _, _, _)
RepeatClearEdges(ns, es, calls, fuel) ==
    IF Len(es) = 0 THEN [nodes |-> ns, edges |-> es, fault |-> "none", steps |-> calls]
    ELSE IF fuel = 0 THEN [nodes |-> ns, edges |-> es, fault |-> "hang", steps |-> calls]
    ELSE Bind(clear_edges(ns, es), LAMBDA r :
              IF r.fault # "none"
              THEN [nodes |-> r.nodes, edges |-> r.edges, fault |-> r.fault,
                    steps |-> calls + 1]
              ELSE RepeatClearEdges(r.nodes, r.edges, calls + 1, fuel - 1))

RemoveEdgesWithLoop(f) ==
    /\ fault = "none"
    /\ \E r \in {RepeatRemoveEdgesWith(nodes, edges, f, <<>>, 0, Len(edges) + 2)} :
          /\ nodes' = r.nodes
          /\ edges' = r.edges
          /\ fault' = r.fault
          /\ last' = [Call("remove_edges_with") EXCEPT !.data = <<f>>, !.ce = r.ret,
                                                       !.steps = r.steps]
    /\ UNCHANGED <<batches, sess>>

ClearEdgesLoop ==
    /\ fault = "none"
    /\ \E r \in {RepeatClearEdges(nodes, edges, 0, Len(edges) + 2)} :
          /\ nodes' = r.nodes
          /\ edges' = r.edges
          /\ fault' = r.fault
          /\ last' = [Call("clear_edges") EXCEPT !.steps = r.steps]
    /\ UNCHANGED <<batches, sess>>

NextWith ==
    \/ \E d \in NodeData : AddNode(d, MaxWith)
    \/ \E d \in EdgeData : \E from \in NodeIxs : \E to \in NodeIxs : AddEdge(d, from, to, MaxWith)
    \/ \E ix \in NodeIxs : RemoveNode(ix)
    \/ \E dn \in Lists(Len(nodes), MaxDel) : \E de \in Lists(Len(edges), MaxDel) :
          \E wraps \in Builds : RemoveNodesEdges(dn, de, wraps)
    \/ \E f \in EdgePreds : RemoveEdgesWithLoop(f)
    \/ ClearEdgesLoop

SpecWith == Init /\ [][NextWith]_vars

\* the edges of es as (payload, source, target), and those of them whose
\* payload does not satisfy f
EdgeTriples(es) == [k \in 1..Len(es) |-> <<es[k].data, es[k].node[1], es[k].node[2]>>]
Kept(es, f) == SelectSeq(EdgeTriples(es), LAMBDA t : ~Sat(f, t[1]))

\* What a step that is a loop of remove_edges_with has done.
RemoveEdgesWithOk ==
    /\ fault' = "none"
    /\ \A k \in 1..Len(last'.ce) : Sat(last'.data[1], last'.ce[k])
    /\ Len(last'.ce) + Len(edges') = Len(edges)
    /\ SameBag(EdgeTriples(edges'), Kept(edges, last'.data[1]))
    /\ Len(nodes') = Len(nodes)

(***************************************************************************)
(* C27: repeating remove_edges_with(f), each iterator consumed, until a    *)
(* pass removes nothing ends; every payload removed satisfies f, and       *)
(* afterwards the store holds exactly the edges whose payload does not     *)
(* satisfy f, with the node count unchanged.                               *)
(***************************************************************************)
C27_RemoveEdgesWith == [][last'.op = "remove_edges_with" => RemoveEdgesWithOk]_vars

\* the same on stores that no batch removal has touched
C27_RemoveEdgesWithNoBatch ==
    [][(batches = 0 /\ last'.op = "remove_edges_with") => RemoveEdgesWithOk]_vars

\* What a step that is a loop of clear_edges has done.
ClearEdgesOk ==
    /\ fault' = "none"
    /\ Len(edges') = 0
    /\ Payloads(nodes') = Payloads(nodes)

(***************************************************************************)
(* C28: calling clear_edges again and again while len_edges > 0 ends with  *)
(* len_edges = 0, and the node count and all node payloads are what they   *)
(* were before the first call.                                             *)
(***************************************************************************)
C28_ClearEdges == [][last'.op = "clear_edges" => ClearEdgesOk]_vars

\* the same on stores that no batch removal has touched
C28_ClearEdgesNoBatch ==
    [][(batches = 0 /\ last'.op = "clear_edges") => ClearEdgesOk]_vars

(***************************************************************************)
(* The capacity of the index space.  NodeIx and EdgeIx wrap a u32; here    *)
(* the index type has IxBits bits instead of 32, so that a store can be    *)
(* filled: u32_MAX stands for u32::MAX, the sentinel of NodeIx::end and    *)
(* EdgeIx::end at that width, and the casts of is_end are taken at IxBits  *)
(* (i32) and 2 * IxBits (i64, u64) bits.  A call that finds the store full *)
(* panics: fault "capacity".                                               *)
(***************************************************************************)
IxBits == 3

u32_MAX == 2^IxBits - 1

\* `v as uN` and `v as iN` for N = w: the value v reduced to w bits, read
\* unsigned and read in two's complement
AsUnsigned(v, w) == v % 2^w
AsSigned(v, w) == IF v % 2^w >= 2^(w - 1) THEN (v % 2^w) - 2^w ELSE v % 2^w

\* NodeIx::is_end, EdgeIx::is_end: `self.0 as i32 as i64 as u64 == u64::MAX`
is_end_cast(ix) ==
    AsUnsigned(AsSigned(AsSigned(ix, IxBits), 2 * IxBits), 2 * IxBits) = 2^(2 * IxBits) - 1

\* An add_node whose capacity test lets one more node in.
add_node_cap_Late(ns, d) ==
    IF Len(ns) = u32_MAX + 1
    THEN [nodes |-> ns, fault |-> "capacity", ix |-> <<>>]
    ELSE [nodes |-> add_node(ns, d).nodes, fault |-> "none",
          ix |-> <<AsUnsigned(Len(ns), IxBits)>>]

\* add_node with its capacity test; the index issued is `len as u32`
add_node_cap(ns, d) ==
    IF Len(ns) = u32_MAX
    THEN [nodes |-> ns, fault |-> "capacity", ix |-> <<>>]
    ELSE [nodes |-> add_node(ns, d).nodes, fault |-> "none",
          ix |-> <<AsUnsigned(Len(ns), IxBits)>>]

\* add_edge_unchecked with its capacity test
add_edge_unchecked_cap(ns, es, d, n_from, n_to) ==
    IF Len(es) = u32_MAX
    THEN [nodes |-> ns, edges |-> es, fault |-> "capacity", ix |-> <<>>]
    ELSE Bind(add_edge_unchecked(ns, es, d, n_from, n_to), LAMBDA r :
              [nodes |-> r.nodes, edges |-> r.edges, fault |-> r.fault,
               ix |-> IF r.fault = "none" THEN <<AsUnsigned(Len(es), IxBits)>> ELSE <<>>])

\* add_edge: the two assertions on the endpoints, then add_edge_unchecked
add_edge_cap(ns, es, d, from, to) ==
    IF exists_node_index(ns, from) /\ exists_node_index(ns, to)
    THEN [ok |-> TRUE, r |-> add_edge_unchecked_cap(ns, es, d, from, to)]
    ELSE [ok |-> FALSE, r |-> [nodes |-> ns, edges |-> es, fault |-> "none", ix |-> <<>>]]

AddNodeCap(d) ==
    /\ fault = "none"
    /\ \E r \in {add_node_cap(nodes, d)} :
           /\ nodes' = r.nodes
           /\ fault' = r.fault
           /\ last' = [Call("add_node") EXCEPT !.data = <<d>>, !.rix = r.ix]
    /\ UNCHANGED <<edges, batches, sess>>

AddEdgeCap(d, from, to) ==
    /\ fault = "none"
    /\ \E c \in {add_edge_cap(nodes, edges, d, from, to)} :
           /\ nodes' = c.r.nodes
           /\ edges' = c.r.edges
           /\ fault' = c.r.fault
           /\ last' = [Call("add_edge") EXCEPT !.args = <<from, to>>, !.data = <<d>>,
                                               !.ok = c.ok, !.rix = c.r.ix]
    /\ UNCHANGED <<batches, sess>>

\* The stores filled here hold one node payload and one edge payload, and
\* every edge is a loop at node 0; add_edge is also called with a target that
\* does not exist.
NextCap ==
    \/ AddNodeCap("a")
    \/ \E to \in {0, Len(nodes)} : AddEdgeCap("x", 0, to)
    \/ \E ix \in {0, Len(edges) - 1} \cap EdgeIxs : RemoveEdge(ix)
    \/ \E ix \in {Len(nodes) - 1} \cap NodeIxs : RemoveNode(ix)

SpecCap == Init /\ [][NextCap]_vars

\* What a step that is an add_node, or an add_edge between existing nodes,
\* has done.
CapacityOk ==
    /\ last'.op = "add_node" =>
          IF Len(nodes) < u32_MAX
          THEN /\ fault' = "none"
               /\ Len(nodes') = Len(nodes) + 1
               /\ last'.rix = <<Len(nodes)>>
               /\ ~is_end_cast(last'.rix[1])
          ELSE /\ Len(nodes) = u32_MAX
               /\ fault' = "capacity"
               /\ nodes' = nodes /\ last'.rix = <<>>
    /\ (last'.op = "add_edge" /\ last'.ok) =>
          IF Len(edges) < u32_MAX
          THEN /\ fault' = "none"
               /\ Len(edges') = Len(edges) + 1
               /\ last'.rix = <<Len(edges)>>
               /\ ~is_end_cast(last'.rix[1])
          ELSE /\ Len(edges) = u32_MAX
               /\ fault' = "capacity"
               /\ edges' = edges /\ nodes' = nodes /\ last'.rix = <<>>

(***************************************************************************)
(* C29: add_node succeeds whenever the node count is below u32::MAX and    *)
(* fails with the capacity panic exactly when the count equals u32::MAX;   *)
(* so does add_edge, between existing nodes, with the edge count.  The     *)
(* counts never pass u32::MAX, is_end is true of u32::MAX alone, and no    *)
(* index issued is the END sentinel.                                       *)
(***************************************************************************)
C29_Capacity ==
    /\ [](/\ Len(nodes) <= u32_MAX /\ Len(edges) <= u32_MAX
          /\ \A ix \in 0..u32_MAX : is_end_cast(ix) <=> ix = u32_MAX)
    /\ [][CapacityOk]_vars

\* add_node has panicked on a store that is full of nodes and holds edges
C29_Witness ==
    /\ fault = "capacity" /\ last.op = "add_node"
    /\ Len(nodes) = u32_MAX /\ Len(edges) >= 1

\* add_edge has panicked on a store that is full of edges, not of nodes
C29_EdgesFull ==
    /\ fault = "capacity" /\ last.op = "add_edge" /\ last.ok
    /\ Len(edges) = u32_MAX /\ Len(nodes) < u32_MAX

(***************************************************************************)
(* C30: in every state the operations reach, additions, single removals    *)
(* and batch removals, both endpoints of every stored edge are below the   *)
(* node count: no stored edge refers to a removed node.                    *)
(***************************************************************************)
C30_EndpointsExist ==
    fault = "none" =>
       \A e \in 1..Len(edges) : \A d \in 1..2 : exists_node_index(nodes, edges[e].node[d])

\* the same while no batch removal has run
C30_EndpointsExistNoBatch == batches = 0 => C30_EndpointsExist

\* the same in the state a batch removal leaves
C30_EndpointsExistAfterBatch == last.op = "remove_nodes_edges" => C30_EndpointsExist

(***************************************************************************)
(* C31: in every state the operations reach, a batch removal followed by   *)
(* add_edge included, iterating the outgoing or the incoming edges of any  *)
(* node ends and yields at most len_edges items: no adjacency chain holds  *)
(* a cycle and no iteration yields an edge twice.                          *)
(***************************************************************************)
C31_ChainsEnd ==
    fault = "none" =>
       \A n \in Ixs(nodes) : \A dir \in {0, 1} :
           /\ ~Diverges(nodes, edges, dir, n)
           /\ NoDup(impl_get_edges(nodes, edges, dir, n))

\* the same while no batch removal has run
C31_ChainsEndNoBatch == batches = 0 => C31_ChainsEnd

(***************************************************************************)
(* swap_remove statement by statement.  The state st of one call holds the *)
(* place in the code (pc), the cursors i and j, the saved flag b, the flag *)
(* array del_ord, the array arr that the callback cb swaps alongside       *)
(* (element k of the input is the number k), the number of swaps each      *)
(* position has taken part in, and the flags the call was given.  last.mp  *)
(* holds st while the call runs.                                           *)
(***************************************************************************)
\* a flag array has at most MaxFlags elements
MaxFlags == 4

\* the flag arrays of length 1..MaxFlags
FlagArrays == UNION {[1..n -> BOOLEAN] : n \in 1..MaxFlags}

\* lines 752-758: a call on the flags fl, none of them compacted yet
swap_remove_enter(fl) ==
    [pc |-> "loop", i |-> 0, j |-> Len(fl) - 1, b |-> FALSE,
     del_ord |-> [k \in 1..Len(fl) |-> [del |-> fl[k], ord |-> k - 1]],
     arr |-> [k \in 1..Len(fl) |-> k - 1],
     swaps |-> [k \in 1..Len(fl) |-> 0],
     flags |-> fl, fault |-> "none", ret |-> <<>>]

Stop(st, f) == [st EXCEPT !.pc = "done", !.fault = f]
Return(st, r) == [st EXCEPT !.pc = "done", !.ret = <<r>>]

\* A step that calls cb(i, j) without swapping the two entries of del_ord.
step_split_NoTable(st) ==
    IF st.i = st.j THEN Return(st, st.i + 1)
    ELSE [st EXCEPT !.arr = SwapAt(@, st.i, st.j),
                    !.swaps[st.i + 1] = @ + 1, !.swaps[st.j + 1] = @ + 1,
                    !.j = @ - 1,
                    !.pc = "loop"]

\* lines 794-812: `if i == j { return i + 1 }`, the swap of the two entries,
\* cb(i, j) and `j -= 1`
step_split(st) ==
    IF st.i = st.j THEN Return(st, st.i + 1)
    ELSE [st EXCEPT !.del_ord = SwapAt(@, st.i, st.j),
                    !.arr = SwapAt(@, st.i, st.j),
                    !.swaps[st.i + 1] = @ + 1, !.swaps[st.j + 1] = @ + 1,
                    !.j = @ - 1,
                    !.pc = "loop"]

\* one statement of swap_remove; get_unchecked outside the slice is undefined
\* behaviour ("oob"), del_ord[j] outside the slice panics, j -= 1 at 0
\* overflows
swap_remove_step(st) ==
    CASE st.pc = "loop" ->
            \* lines 765-766
            IF st.i >= Len(st.del_ord) THEN Stop(st, "oob")
            ELSE [st EXCEPT !.b = st.del_ord[st.i + 1].del,
                            !.del_ord[st.i + 1].del = FALSE,
                            !.pc = "down"]
      [] st.pc = "down" ->
            \* lines 768-772
            IF st.j >= Len(st.del_ord) THEN Stop(st, "panic")
            ELSE IF st.del_ord[st.j + 1].del
            THEN IF st.j = 0 THEN Stop(st, "overflow") ELSE [st EXCEPT !.j = @ - 1]
            ELSE [st EXCEPT !.del_ord[st.i + 1].del = st.b, !.pc = "check"]
      [] st.pc = "check" ->
            \* lines 774-783
            IF st.i = st.j THEN Return(st, IF st.b THEN st.i ELSE st.i + 1)
            ELSE [st EXCEPT !.del_ord[st.j + 1].del = TRUE, !.pc = "up"]
      [] st.pc = "up" ->
            \* lines 788-794
            IF st.i >= Len(st.del_ord) THEN Stop(st, "oob")
            ELSE IF ~st.del_ord[st.i + 1].del THEN [st EXCEPT !.i = @ + 1]
            ELSE [st EXCEPT !.del_ord[st.j + 1].del = FALSE, !.pc = "split"]
      [] st.pc = "split" -> step_split(st)
      [] OTHER -> st

SwapRemoveEnter(fl) ==
    /\ fault = "none"
    /\ last.op = "default"
    /\ last' = [Call("swap_remove") EXCEPT !.mp = swap_remove_enter(fl)]
    /\ UNCHANGED <<nodes, edges, fault, batches, sess>>

SwapRemoveStep ==
    /\ fault = "none"
    /\ last.op = "swap_remove"
    /\ last.mp.pc # "done"
    /\ \E st \in {swap_remove_step(last.mp)} :
          /\ last' = [last EXCEPT !.mp = st]
          /\ fault' = st.fault
    /\ UNCHANGED <<nodes, edges, batches, sess>>

NextCompact ==
    \/ \E fl \in FlagArrays : SwapRemoveEnter(fl)
    \/ SwapRemoveStep

SpecCompact == Init /\ [][NextCompact]_vars

\* the elements of the input that are not flagged
Survivors(fl) == {k \in 0..(Len(fl) - 1) : ~fl[k + 1]}

\* What a call that has returned has left.
Compacted(st) ==
    LET s == Cardinality(Survivors(st.flags))
    IN  /\ st.ret = <<s>>
        /\ {st.arr[p] : p \in 1..s} = Survivors(st.flags)
        /\ \A k \in Survivors(st.flags) :
              /\ st.del_ord[k + 1].ord \in 0..(s - 1)
              /\ st.arr[st.del_ord[k + 1].ord + 1] = k
        /\ \A k, l \in Survivors(st.flags) :
              st.del_ord[k + 1].ord = st.del_ord[l + 1].ord => k = l

(***************************************************************************)
(* C32: for a flag array of length n >= 1 swap_remove keeps its cursors    *)
(* within 0 <= i <= j < n at every statement, swaps every position at most *)
(* once, and returns the number s of unflagged elements, with exactly the  *)
(* unflagged elements in positions [0, s) and an index table that maps the *)
(* old indices of the survivors one-to-one onto [0, s).                    *)
(***************************************************************************)
C32_Compaction ==
    last.op = "swap_remove" =>
       /\ fault = "none" /\ last.mp.fault = "none"
       /\ 0 <= last.mp.i /\ last.mp.i <= last.mp.j /\ last.mp.j < Len(last.mp.flags)
       /\ \A p \in 1..Len(last.mp.swaps) : last.mp.swaps[p] <= 1
       /\ last.mp.pc = "done" => Compacted(last.mp)

\* a call that has swapped twice and returned, survivors and flagged both there
C32_Witness ==
    /\ last.op = "swap_remove" /\ last.mp.pc = "done"
    /\ Cardinality({p \in 1..Len(last.mp.swaps) : last.mp.swaps[p] = 1}) = 4
    /\ last.mp.ret = <<2>>

\* The statement-by-statement routine and the operator swap_remove that the
\* batch removal uses return the same count, array and index table.
C32_SameAsSwapRemove ==
    (last.op = "swap_remove" /\ last.mp.pc = "done") =>
       \E r \in {swap_remove(swap_remove_enter(last.mp.flags).del_ord,
                             swap_remove_enter(last.mp.flags).arr, TRUE)} :
          /\ last.mp.ret = <<r.alive>>
          /\ last.mp.arr = r.arr
          /\ last.mp.del_ord = r.del_ord

\* the steps that run the batch removal: Context::remove_nodes_edges, drain
\* and clear
BatchOps == {"remove_nodes_edges", "drain", "clear"}

(***************************************************************************)
(* C33: batch removal, drain and clear end normally on a store that has no *)
(* edges or no nodes: for an empty flag array the compaction returns 0     *)
(* without arithmetic underflow or out-of-range access.  Stated of the     *)
(* first batch removal, drain or clear of a run.                           *)
(***************************************************************************)
C33_EmptyStoreCompletes ==
    [][(last'.op \in BatchOps /\ (Len(nodes) = 0 \/ Len(edges) = 0) /\ batches = 0)
          => fault' = "none"]_vars

\* the same where both arrays of the store hold something
C33_NonEmptyStoreCompletes ==
    [][(last'.op \in BatchOps /\ Len(nodes) > 0 /\ Len(edges) > 0 /\ batches = 0)
          => fault' = "none"]_vars

\* What a remove_node(ix) of a node that is not the last has done: the last
\* node is at ix, every other node where it was, the edges of the moved node
\* name ix, and its two queries yield what they yielded, less the edges it
\* shared with the removed node.
MovedNodeOk(ix) ==
    /\ fault' = "none"
    /\ Len(nodes') = Len(nodes) - 1
    /\ nodes'[ix + 1].data = nodes[Len(nodes)].data
    /\ \A i \in Ixs(nodes') \ {ix} : nodes'[i + 1].data = nodes[i + 1].data
    /\ SameBag(Triples(edges', Ident(Len(nodes'))),
               Triples(NotIncident(edges, ix), AfterNodeMove(nodes, ix)))
    /\ \A dir \in {0, 1} :
          Triples([k \in 1..Len(impl_get_edges(nodes', edges', dir, ix)) |->
                      edges'[impl_get_edges(nodes', edges', dir, ix)[k] + 1]],
                  Ident(Len(nodes')))
          = Triples(SelectSeq([k \in 1..Len(impl_get_edges(nodes, edges, dir, Len(nodes) - 1)) |->
                                  edges[impl_get_edges(nodes, edges, dir, Len(nodes) - 1)[k] + 1]],
                              LAMBDA e : e.node[1] # ix /\ e.node[2] # ix),
                    AfterNodeMove(nodes, ix))

(***************************************************************************)
(* C34: remove_node(ix) on a live node that is not the last moves the node *)
(* at the last index to ix and leaves every other node at its index;       *)
(* afterwards every stored edge that had the moved node as source or       *)
(* target names ix as that endpoint, and the moved node keeps its outgoing *)
(* and its incoming sequence.                                              *)
(***************************************************************************)
C34_MovedNode ==
    [][(last'.op = "remove_node" /\ last'.ok /\ last'.args[1] < Len(nodes) - 1)
          => MovedNodeOk(last'.args[1])]_vars

\* the same of the calls that return
C34_MovedNodeReturned ==
    [][(last'.op = "remove_node" /\ last'.ok /\ last'.args[1] < Len(nodes) - 1
          /\ fault' = "none") => MovedNodeOk(last'.args[1])]_vars

(***************************************************************************)
(* The checked remove_nodes_edges of GraphRemove, which VecGraph does not  *)
(* override: the listed edges one by one, then the listed nodes one by     *)
(* one, each removed if its index exists when its turn comes.              *)
(***************************************************************************)
\* records of the store under the checked batch removal
MaxChecked == 4

\* `for edge_ix in edges { if self.exists_edge_index(edge_ix) { ...
\* self.remove_edge_unchecked(edge_ix) } }`
RECURSIVE RemoveListedEdges(_, _, _, _)
RemoveListedEdges(ns, es, ixs, ce) ==
    IF ixs = <<>> THEN [nodes |-> ns, edges |-> es, fault |-> "none", ce |-> ce]
    ELSE IF ~exists_edge_index(es, Head(ixs)) THEN RemoveListedEdges(ns, es, Tail(ixs), ce)
    ELSE Bind(remove_edge_unchecked(ns, es, Head(ixs)), LAMBDA r :
              IF r.fault # "none"
              THEN [nodes |-> r.nodes, edges |-> r.edges, fault |-> r.fault, ce |-> ce]
              ELSE RemoveListedEdges(r.nodes, r.edges, Tail(ixs), ce \o r.ret))

\* `for node_ix in nodes { if self.exists_node_index(node_ix) { ...
\* self.remove_node_unchecked(node_ix) } }`
RECURSIVE RemoveListedNodes(_, _, _, _)
RemoveListedNodes(ns, es, ixs, cn) ==
    IF ixs = <<>> THEN [nodes |-> ns, edges |-> es, fault |-> "none", cn |-> cn]
    ELSE IF ~exists_node_index(ns, Head(ixs)) THEN RemoveListedNodes(ns, es, Tail(ixs), cn)
    ELSE Bind(remove_node_unchecked(ns, es, Head(ixs)), LAMBDA r :
              IF r.fault # "none"
              THEN [nodes |-> r.nodes, edges |-> r.edges, fault |-> r.fault, cn |-> cn]
              ELSE RemoveListedNodes(r.nodes, r.edges, Tail(ixs), cn \o r.ret))

\* GraphRemove::remove_nodes_edges
remove_nodes_edges(ns, es, del_nodes, del_edges) ==
    Bind(RemoveListedEdges(ns, es, del_edges, <<>>), LAMBDA re :
    IF re.fault # "none"
    THEN [nodes |-> re.nodes, edges |-> re.edges, fault |-> re.fault,
          cn |-> <<>>, ce |-> re.ce]
    ELSE Bind(RemoveListedNodes(re.nodes, re.edges, del_nodes, <<>>), LAMBDA rn :
              [nodes |-> rn.nodes, edges |-> rn.edges, fault |-> rn.fault,
               cn |-> rn.cn, ce |-> re.ce]))

RemoveNodesEdgesChecked(del_nodes, del_edges) ==
    /\ fault = "none"
    /\ \E r \in {remove_nodes_edges(nodes, edges, del_nodes, del_edges)} :
           /\ nodes' = r.nodes
           /\ edges' = r.edges
           /\ fault' = r.fault
           /\ last' = [Call("remove_nodes_edges_checked") EXCEPT
                          !.args = del_nodes, !.args2 = del_edges,
                          !.cn = r.cn, !.ce = r.ce]
    /\ UNCHANGED <<batches, sess>>

\* the lists of at most MaxDel different indices below hi
DistinctLists(hi) == {l \in Lists(hi, MaxDel) : NoDup(l)}

NextCheckedBatch ==
    \/ \E d \in NodeData : AddNode(d, MaxChecked)
    \/ \E d \in EdgeData : \E from \in NodeIxs : \E to \in NodeIxs :
          AddEdge(d, from, to, MaxChecked)
    \/ \E dn \in DistinctLists(Len(nodes)) : \E de \in DistinctLists(Len(edges)) :
          RemoveNodesEdgesChecked(dn, de)

SpecCheckedBatch == Init /\ [][NextCheckedBatch]_vars

\* The store (ns, es) and the store (ns2, es2) hold the same payloads and
\* endpoints up to a renumbering of the nodes and of the edges.
SameElements(ns, es, ns2, es2) ==
    /\ Len(ns) = Len(ns2)
    /\ Len(es) = Len(es2)
    /\ NodeRefsInRange(es, Len(ns))
    /\ NodeRefsInRange(es2, Len(ns2))
    /\ \E f \in Perms(Len(ns)) :
          /\ \A i \in Ixs(ns) : ns2[f[i] + 1].data = ns[i + 1].data
          /\ SameBag(Triples(es, f), Triples(es2, Ident(Len(ns2))))

\* What the checked removal has done, against the flag-and-compact removal of
\* the same lists from the same store (its empty-array subtraction wrapping).
CheckedAsUnchecked(u) ==
    /\ fault' = "none" /\ u.fault = "none"
    /\ SameBag(last'.cn, u.cn)
    /\ SameBag(last'.ce, u.ce)
    /\ SameElements(nodes', edges', u.nodes, u.edges)

(***************************************************************************)
(* C35: for index lists without duplicates, all valid at call time, the    *)
(* checked remove_nodes_edges and remove_nodes_edges_unchecked remove the  *)
(* same elements: they return the same multisets of payloads and leave the *)
(* same graph up to renumbering of indices.                                *)
(***************************************************************************)
C35_CheckedAsUnchecked ==
    [][last'.op = "remove_nodes_edges_checked" =>
          CheckedAsUnchecked(remove_nodes_edges_unchecked(nodes, edges, last'.args,
                                                          last'.args2, TRUE))]_vars

\* the same of the calls that list no node and at most one edge
C35_CheckedAsUncheckedOneEdge ==
    [][(last'.op = "remove_nodes_edges_checked" /\ Len(last'.args) = 0 /\ Len(last'.args2) <= 1) =>
          CheckedAsUnchecked(remove_nodes_edges_unchecked(nodes, edges, last'.args,
                                                          last'.args2, TRUE))]_vars

(***************************************************************************)
(* One call of clear_edges.                                                *)
(***************************************************************************)
\* records of the store under a single clear_edges
MaxClear == 4

ClearEdges ==
    /\ fault = "none"
    /\ \E r \in {clear_edges(nodes, edges)} :
          /\ nodes' = r.nodes
          /\ edges' = r.edges
          /\ fault' = r.fault
          /\ last' = [Call("clear_edges_once") EXCEPT !.ce = r.ret]
    /\ UNCHANGED <<batches, sess>>

NextClear ==
    \/ \E d \in NodeData : AddNode(d, MaxClear)
    \/ \E d \in EdgeData : \E from \in NodeIxs : \E to \in NodeIxs : AddEdge(d, from, to, MaxClear)
    \/ \E ix \in EdgeIxs : RemoveEdge(ix)
    \/ \E dn \in Lists(Len(nodes), MaxDel) : \E de \in Lists(Len(edges), MaxDel) :
          \E wraps \in Builds : RemoveNodesEdges(dn, de, wraps)
    \/ ClearEdges

SpecClear == Init /\ [][NextClear]_vars

\* The old index of the edge that each slot holds after one clear_edges on
\* es: removal k = 0, 1, .. has moved the last edge into slot k, so slot k
\* holds the edge that was at Len(es) - 1 - k.
AfterClear(es) == [k \in 1..(Len(es) \div 2) |-> Len(es) - k]

\* What a step that is one call of clear_edges has done.
ClearEdgesOnceOk ==
    /\ fault' = "none"
    /\ Len(edges') = Len(edges) \div 2
    /\ Len(last'.ce) = Len(edges) - (Len(edges) \div 2)
    /\ \A k \in 1..Len(last'.ce) : last'.ce[k] = edges[k].data
    /\ \A k \in 1..Len(edges') :
          /\ edges'[k].data = edges[AfterClear(edges)[k] + 1].data
          /\ edges'[k].node = edges[AfterClear(edges)[k] + 1].node
    /\ Len(nodes') = Len(nodes)

(***************************************************************************)
(* C36: one call of clear_edges on a store with n edges removes exactly    *)
(* ceil(n/2) edges and leaves floor(n/2): the k-th removal moves the last  *)
(* edge into slot k, the collected indices that are no longer below the    *)
(* edge count are skipped, and the node count does not change.             *)
(***************************************************************************)
C36_ClearEdgesOnce == [][last'.op = "clear_edges_once" => ClearEdgesOnceOk]_vars

\* the same on stores that no batch removal has touched
C36_ClearEdgesOnceNoBatch ==
    [][(batches = 0 /\ last'.op = "clear_edges_once") => ClearEdgesOnceOk]_vars

\* The elements of q from the first occurrence of x on, the last one first.
RECURSIVE Reverse(_)
Reverse(q) == IF q = <<>> THEN <<>> ELSE Append(Reverse(Tail(q)), Head(q))
FromNode(q, x) ==
    SubSeq(q, CHOOSE k \in 1..Len(q) : q[k] = x /\ \A j \in 1..(k - 1) : q[j] # x, Len(q))
UpToNode(q, x) ==
    SubSeq(q, 1, (CHOOSE k \in 1..Len(q) : q[k] = x /\ \A j \in 1..(k - 1) : q[j] # x) - 1)

\* The group that pop loop number k of a run has emitted.
EmittedBy(r, k) == r.sccs[k]

(***************************************************************************)
(* C37: during tarjan the on-stack flag of a node is set exactly while the *)
(* node is on the stack; a pop loop, entered when the lowlink of a node    *)
(* equals its discovery index, stops exactly at that node, so that the     *)
(* group emitted is the stack from that node up to the top; and when       *)
(* tarjan returns the stack is empty, no node is flagged and every node    *)
(* has its own discovery index in 0..len_nodes-1.                          *)
(***************************************************************************)
C37_StackDiscipline ==
    last.op = "tarjan" =>
       /\ \A k \in 1..Len(last.mp.trace) :
             /\ last.mp.trace[k].flagged = ToSet(last.mp.trace[k].stack)
             /\ NoDup(last.mp.trace[k].stack)
       /\ \A k \in 1..Len(last.mp.pops) :
             /\ last.mp.pops[k].fault = "none"
             /\ last.mp.pops[k].root \in ToSet(last.mp.pops[k].before)
             /\ last.mp.pops[k].after = UpToNode(last.mp.pops[k].before, last.mp.pops[k].root)
             /\ k <= Len(last.mp.sccs)
             /\ EmittedBy(last.mp, k)
                   = Reverse(FromNode(last.mp.pops[k].before, last.mp.pops[k].root))
       /\ fault = "none" =>
             /\ last.mp.stack = <<>>
             /\ \A n \in 1..Len(last.mp.node_states) :
                   /\ ~last.mp.node_states[n].on_stack
                   /\ last.mp.node_states[n].index # <<>>
                   /\ last.mp.node_states[n].index[1] \in 0..(Len(nodes) - 1)
             /\ \A n, m \in 1..Len(last.mp.node_states) :
                   last.mp.node_states[n].index = last.mp.node_states[m].index => n = m
             /\ Len(last.mp.node_states) = Len(nodes)

\* tarjan has returned after a pop loop that took two nodes off a stack of
\* three
C37_Witness ==
    /\ last.op = "tarjan" /\ fault = "none"
    /\ \E k \in 1..Len(last.mp.pops) :
          /\ Len(last.mp.pops[k].before) = 3
          /\ Len(last.mp.pops[k].after) = 1

====
